---- MODULE Spec2Model ----
(***************************************************************************)
(* Orchestration-and-guardrail engine of the assistant:                    *)
(*   - SafetyGuard (core/safety.py): regex risk classification             *)
(*   - OSLayer.run_command (core/os_layer.py): gated process execution     *)
(*   - PermissionManager (core/permissions.py): path scope and its cache   *)
(*   - Orchestrator (core/orchestrator.py): plan, run_stream, run          *)
(*   - WIAAgent.smart_execute (agents/base_agent.py): one-shot correction  *)
(*   - FeedbackManager (core/feedback.py): command history and retrieval   *)
(* Each component has its own specification (SpecOS, SpecShutdown,         *)
(* SpecPerm, SpecOrch, SpecAgent, SpecFb, SpecGuard) over its own          *)
(* variables; the other variables stay at their initial values.            *)
(***************************************************************************)
EXTENDS Integers, Sequences, FiniteSets, TLC

VARIABLES
    \* ---- OSLayer (core/os_layer.py) ----
    pc,               \* per thread: position inside run_command
    call,             \* per thread: arguments of the current run_command call
    assessment,       \* per thread: the dict validate_command returned
    proc,             \* per thread: the Popen handle of the current call (0 = none)
    result,           \* per thread: the dict run_command returned
    active_processes, \* OSLayer._active_processes
    procs,            \* every process the spawner created: pid -> record
    shellcheck_path,  \* SafetyGuard.shellcheck_path is set
    analysed,         \* number of shellcheck runs made by run_static_analysis
    calls,            \* number of run_command calls started
    is_shutting_down, \* OSLayer._is_shutting_down
    hpc,              \* position of the signal handler _handle_shutdown
    hidx,             \* index of the handler's loop over _active_processes
    termCalls,        \* the processes the handler called terminate() on, in order
    hookIdx,          \* index of the handler's loop over _shutdown_hooks
    hookCalls,        \* the hooks the handler invoked, in order, and whether each raised
    signals,          \* number of shutdown signals delivered
    \* ---- PermissionManager (core/permissions.py) ----
    allowed_paths,    \* PermissionManager.allowed_paths (resolved, in order)
    cache,            \* PermissionManager._cache: key -> BOOLEAN
    links,            \* symbolic links present in the filesystem
    lastCheck,        \* the last permission call made and what it returned
    denied,           \* resolved paths some is_path_allowed call has denied
    permOps,          \* number of permission calls made
    \* ---- Orchestrator (core/orchestrator.py) ----
    opc,              \* position of run_stream / run
    mode,             \* who consumes the stream: "run" or "stream"
    query,            \* the user query
    oracle,           \* what the planning collaborators did in plan()
    plan,             \* the value plan() returned
    stepIdx,          \* index of the step the for loop is at
    events,           \* events run_stream has yielded
    results,          \* run_stream's local result list
    dispatched,       \* capability execute calls made: sequence of step indexes
    raised,           \* indexes of the steps whose execute raised
    returnedFail,     \* indexes of the steps whose execute returned a failure text
    feedbackLog,      \* rows record_command wrote
    auditLog,         \* rows log_action wrote
    history,          \* Orchestrator.history
    runResult,        \* whether run() has returned, and the list it returned
    \* ---- WIAAgent.smart_execute (agents/base_agent.py) ----
    apc,              \* position inside smart_execute
    firstAttempt,     \* outcome of the first attempt
    corrRequests,     \* Oracle requests sent by _self_correct in this execution
    corrAfter,        \* for each correction request: what preceded it
    corrOutcome,      \* what the last _self_correct call returned
    corrWhere,        \* where _self_correct was called from: "try" or "except"
    agentResult,      \* the text smart_execute returned
    execs,            \* number of smart_execute calls started
    execCall,         \* the execute call under way: its scoped_path, whether its task ran
    \* ---- FeedbackManager (core/feedback.py) ----
    command_history,  \* rows of the command_history table, in id order
    vector_index,     \* metadata held by the vector store, in insertion order
    lastFb,           \* the last FeedbackManager call made and what it returned
    fbOps,            \* number of record_command / rate_last_command calls made
    \* ---- SafetyGuard called on its own (core/safety.py) ----
    guard             \* the last SafetyGuard call made and what it returned

shutVars  == <<is_shutting_down, hpc, hidx, termCalls, hookIdx, hookCalls, signals>>
osVars    == <<pc, call, assessment, proc, result, active_processes, procs,
               shellcheck_path, analysed, calls, shutVars>>
permVars  == <<allowed_paths, cache, links, lastCheck, denied, permOps>>
orchVars  == <<opc, mode, query, oracle, plan, stepIdx, events, results, dispatched,
               raised, returnedFail, feedbackLog, auditLog, history, runResult>>
agentVars == <<apc, firstAttempt, corrRequests, corrAfter, corrOutcome, corrWhere,
               agentResult, execs, execCall>>
fbVars    == <<command_history, vector_index, lastFb, fbOps>>
guardVars == <<guard>>
vars      == <<osVars, permVars, orchVars, agentVars, fbVars, guardVars>>

NoValue == "none"

\* each component's actions leave the other components alone
OSOnly    == UNCHANGED <<permVars, orchVars, agentVars, fbVars, guardVars>>
PermOnly  == UNCHANGED <<osVars, orchVars, agentVars, fbVars, guardVars>>
OrchOnly  == UNCHANGED <<osVars, permVars, agentVars, fbVars, guardVars>>
AgentOnly == UNCHANGED <<osVars, permVars, orchVars, fbVars, guardVars>>
FbOnly    == UNCHANGED <<osVars, permVars, orchVars, agentVars, guardVars>>
GuardOnly == UNCHANGED <<osVars, permVars, orchVars, agentVars, fbVars>>

\* ---------------------------------------------------------------- bounds
MaxCalls   == 2   \* run_command calls per behaviour
MaxPermOps == 3   \* permission calls per behaviour
MaxSteps   == 3   \* steps of a plan
MaxExecs   == 2   \* smart_execute calls per behaviour
MaxSignals == 2   \* shutdown signals delivered per behaviour
MaxFbOps   == 3   \* record_command and rate_last_command calls per behaviour
MaxFragments == 2 \* fragments of a command given to SafetyGuard on its own

Threads == {1, 2}

\* ------------------------------------------------------------ characters
UpperCase == <<"A","B","C","D","E","F","G","H","I","J","K","L","M",
               "N","O","P","Q","R","S","T","U","V","W","X","Y","Z">>
LowerCase == <<"a","b","c","d","e","f","g","h","i","j","k","l","m",
               "n","o","p","q","r","s","t","u","v","w","x","y","z">>

IsUpper(c)  == \E i \in 1..Len(UpperCase) : UpperCase[i] = c
IsLetter(c) == IsUpper(c) \/ \E i \in 1..Len(LowerCase) : LowerCase[i] = c
IsSpace(c)  == c \in {" ", "\t"}

\* re.I: both sides are compared after case folding
Lower(c) == IF IsUpper(c)
            THEN LowerCase[CHOOSE i \in 1..Len(UpperCase) : UpperCase[i] = c]
            ELSE c

\* " ".join(parts)
RECURSIVE Join(_)
Join(parts) ==
    IF Len(parts) = 0 THEN <<>>
    ELSE IF Len(parts) = 1 THEN parts[1]
    ELSE parts[1] \o <<" ">> \o Join(Tail(parts))

\* str.split(): the maximal runs of non-whitespace characters
RECURSIVE SplitFrom(_, _, _, _)
SplitFrom(s, i, cur, acc) ==
    IF i > Len(s) THEN (IF Len(cur) > 0 THEN Append(acc, cur) ELSE acc)
    ELSE IF IsSpace(s[i])
         THEN SplitFrom(s, i + 1, <<>>, IF Len(cur) > 0 THEN Append(acc, cur) ELSE acc)
         ELSE SplitFrom(s, i + 1, Append(cur, s[i]), acc)
Split(s) == SplitFrom(s, 1, <<>>, <<>>)

\* str.startswith
StartsWith(s, prefix) ==
    /\ Len(prefix) <= Len(s)
    /\ \A i \in 1..Len(prefix) : s[i] = prefix[i]

\* str.strip()
RECURSIVE LStrip(_)
LStrip(s) == IF Len(s) > 0 /\ IsSpace(s[1]) THEN LStrip(Tail(s)) ELSE s
RECURSIVE RStrip(_)
RStrip(s) == IF Len(s) > 0 /\ IsSpace(s[Len(s)]) THEN RStrip(SubSeq(s, 1, Len(s) - 1)) ELSE s
Strip(s)  == RStrip(LStrip(s))

\* --------------------------------------------------- regular expressions
\* A pattern is a sequence of elements: a literal character, \s+, \s*, .*,
\* [A-Z] and $.
Lit(s)  == [i \in 1..Len(s) |-> [k |-> "lit", c |-> s[i]]]
WsPlus  == <<[k |-> "ws+", c |-> ""]>>
WsStar  == <<[k |-> "ws*", c |-> ""]>>
AnyStar == <<[k |-> "any*", c |-> ""]>>
Letter  == <<[k |-> "letter", c |-> ""]>>
EndAnch == <<[k |-> "end", c |-> ""]>>

\* elements i.. of pattern p match s from position j on
RECURSIVE MatchAt(_, _, _, _)
MatchAt(p, i, s, j) ==
    IF i > Len(p) THEN TRUE
    ELSE LET e == p[i] IN
         CASE e.k = "lit" ->
                /\ j <= Len(s)
                /\ Lower(s[j]) = Lower(e.c)
                /\ MatchAt(p, i + 1, s, j + 1)
           [] e.k = "letter" ->
                /\ j <= Len(s)
                /\ IsLetter(s[j])
                /\ MatchAt(p, i + 1, s, j + 1)
           [] e.k = "ws+" ->
                \E n \in 1..(Len(s) - j + 1) :
                    /\ \A m \in j..(j + n - 1) : IsSpace(s[m])
                    /\ MatchAt(p, i + 1, s, j + n)
           [] e.k = "ws*" ->
                \E n \in 0..(Len(s) - j + 1) :
                    /\ \A m \in j..(j + n - 1) : IsSpace(s[m])
                    /\ MatchAt(p, i + 1, s, j + n)
           [] e.k = "any*" ->
                \E n \in 0..(Len(s) - j + 1) : MatchAt(p, i + 1, s, j + n)
           [] e.k = "end" ->
                /\ j = Len(s) + 1
                /\ MatchAt(p, i + 1, s, j)

\* pattern.search(command)
Search(p, s) == \E j \in 1..(Len(s) + 1) : MatchAt(p, 1, s, j)

\* ------------------------------------------------------------ SafetyGuard
BLOCKED_COMMANDS == <<
    Lit(<<"r","m">>) \o WsPlus \o Lit(<<"-","r","f">>) \o WsPlus \o Lit(<<"/">>) \o WsStar \o EndAnch,
    Lit(<<"r","m">>) \o WsPlus \o Lit(<<"-","r","f">>) \o WsPlus \o Lit(<<"/","*">>),
    Lit(<<"r","m">>) \o WsPlus \o Lit(<<"-","r","f">>) \o WsPlus \o Lit(<<"~">>) \o WsStar \o EndAnch,
    Lit(<<"r","m">>) \o WsPlus \o Lit(<<"-","r","f">>) \o WsPlus \o Lit(<<".">>) \o WsStar \o EndAnch,
    Lit(<<"d","e","l">>) \o WsPlus \o Lit(<<"/","s">>) \o WsPlus \o Lit(<<"/","q">>) \o WsPlus
        \o Lit(<<"C",":","\\">>),
    Lit(<<"f","o","r","m","a","t">>) \o WsPlus \o Letter \o Lit(<<":">>),
    Lit(<<"m","k","f","s",".">>),
    Lit(<<"d","d">>) \o WsPlus \o Lit(<<"i","f","=">>) \o AnyStar
        \o Lit(<<"o","f","=","/","d","e","v","/","s","d">>),
    Lit(<<">">>) \o WsStar \o Lit(<<"/","d","e","v","/","s","d","a">>),
    Lit(<<"c","h","m","o","d">>) \o WsPlus \o Lit(<<"-","R">>) \o WsPlus \o Lit(<<"7","7","7">>)
        \o WsPlus \o Lit(<<"/">>),
    Lit(<<"c","h","o","w","n">>) \o WsPlus \o Lit(<<"-","R">>) \o WsPlus \o AnyStar \o WsPlus
        \o Lit(<<"/">>) \o WsStar \o EndAnch
>>

HIGH_RISK_COMMANDS == <<
    Lit(<<"r","m">>) \o WsPlus \o Lit(<<"-","r","f">>),
    Lit(<<"r","m">>) \o WsPlus \o Lit(<<"-","r">>),
    Lit(<<"r","m","d","i","r">>) \o WsPlus \o Lit(<<"/","s">>),
    Lit(<<"s","u","d","o">>) \o WsPlus \o Lit(<<"r","m">>),
    Lit(<<"k","i","l","l">>) \o WsPlus \o Lit(<<"-","9">>),
    Lit(<<"p","k","i","l","l">>),
    Lit(<<"s","h","u","t","d","o","w","n">>),
    Lit(<<"r","e","b","o","o","t">>),
    Lit(<<"s","y","s","t","e","m","c","t","l">>) \o WsPlus \o Lit(<<"s","t","o","p">>),
    Lit(<<"i","p","t","a","b","l","e","s">>) \o WsPlus \o Lit(<<"-","F">>),
    Lit(<<"d","o","c","k","e","r">>) \o WsPlus \o Lit(<<"s","y","s","t","e","m">>) \o WsPlus
        \o Lit(<<"p","r","u","n","e">>),
    Lit(<<"g","i","t">>) \o WsPlus \o Lit(<<"p","u","s","h">>) \o WsPlus
        \o Lit(<<"-","-","f","o","r","c","e">>),
    Lit(<<"g","i","t">>) \o WsPlus \o Lit(<<"r","e","s","e","t">>) \o WsPlus
        \o Lit(<<"-","-","h","a","r","d">>),
    Lit(<<"D","R","O","P">>) \o WsPlus \o Lit(<<"T","A","B","L","E">>),
    Lit(<<"D","E","L","E","T","E">>) \o WsPlus \o Lit(<<"F","R","O","M">>),
    Lit(<<"T","R","U","N","C","A","T","E">>),
    Lit(<<"p","i","p">>) \o WsPlus \o Lit(<<"u","n","i","n","s","t","a","l","l">>),
    Lit(<<"n","p","m">>) \o WsPlus \o Lit(<<"u","n","i","n","s","t","a","l","l">>) \o WsPlus
        \o Lit(<<"-","g">>)
>>

\* index of the first pattern of the list that matches (0 = none)
FirstMatch(patterns, command) ==
    IF \E i \in 1..Len(patterns) : Search(patterns[i], command)
    THEN CHOOSE i \in 1..Len(patterns) :
            /\ Search(patterns[i], command)
            /\ \A k \in 1..(i - 1) : ~Search(patterns[k], command)
    ELSE 0

\* a classification that looks at the HIGH_RISK list first
assess_risk_high_first(command) ==
    LET b == FirstMatch(BLOCKED_COMMANDS, command)
        h == FirstMatch(HIGH_RISK_COMMANDS, command)
    IN  IF h > 0 THEN <<"HIGH_RISK", [text |-> "Destructive command detected", list |-> "HIGH_RISK", pattern |-> h]>>
        ELSE IF b > 0 THEN <<"BLOCKED", [text |-> "Catastrophic command detected", list |-> "BLOCKED", pattern |-> b]>>
        ELSE <<"SAFE", [text |-> "Command appears safe", list |-> "", pattern |-> 0]>>

\* SafetyGuard.assess_risk: <<risk_level, reason>>
assess_risk(command) ==
    LET b == FirstMatch(BLOCKED_COMMANDS, command)
        h == FirstMatch(HIGH_RISK_COMMANDS, command)
    IN  IF b > 0 THEN <<"BLOCKED", [text |-> "Catastrophic command detected", list |-> "BLOCKED", pattern |-> b]>>
        ELSE IF h > 0 THEN <<"HIGH_RISK", [text |-> "Destructive command detected", list |-> "HIGH_RISK", pattern |-> h]>>
        ELSE <<"SAFE", [text |-> "Command appears safe", list |-> "", pattern |-> 0]>>

\* DRY_RUN_MAP in insertion order; the flag <<>> is None
DRY_RUN_MAP == <<
    [prefix |-> <<"r","s","y","n","c">>, flag |-> <<"-","-","d","r","y","-","r","u","n">>],
    [prefix |-> <<"a","p","t">>, flag |-> <<"-","-","s","i","m","u","l","a","t","e">>],
    [prefix |-> <<"a","p","t","-","g","e","t">>, flag |-> <<"-","-","s","i","m","u","l","a","t","e">>],
    [prefix |-> <<"d","n","f">>, flag |-> <<"-","-","a","s","s","u","m","e","n","o">>],
    [prefix |-> <<"p","i","p">>, flag |-> <<"-","-","d","r","y","-","r","u","n">>],
    [prefix |-> <<"r","m">>, flag |-> <<>>],
    [prefix |-> <<"g","i","t"," ","p","u","s","h">>, flag |-> <<"-","-","d","r","y","-","r","u","n">>],
    [prefix |-> <<"g","i","t"," ","c","l","e","a","n">>, flag |-> <<"-","-","d","r","y","-","r","u","n">>],
    [prefix |-> <<"d","o","c","k","e","r","-","c","o","m","p","o","s","e"," ","u","p">>, flag |-> <<"-","-","n","o","-","s","t","a","r","t">>]
>>

\* Optional[str]: None, or a command text
None       == [none |-> TRUE, command |-> <<>>]
Some(text) == [none |-> FALSE, command |-> text]

\* index of the first element of parts equal to word (0 = none)
IndexOf(parts, word) ==
    IF \E i \in 1..Len(parts) : parts[i] = word
    THEN CHOOSE i \in 1..Len(parts) :
            /\ parts[i] = word
            /\ \A k \in 1..(i - 1) : parts[k] # word
    ELSE 0

\* parts.insert(i + 1, flag), i the position of the element found
InsertAfter(parts, i, flag) ==
    SubSeq(parts, 1, i) \o <<flag>> \o SubSeq(parts, i + 1, Len(parts))

\* the loop of get_dry_run_version from entry k of DRY_RUN_MAP on
RECURSIVE DryRunFrom(_, _)
DryRunFrom(command, k) ==
    IF k > Len(DRY_RUN_MAP) THEN None
    ELSE LET cmd_prefix == DRY_RUN_MAP[k].prefix
             flag       == DRY_RUN_MAP[k].flag
             parts      == Split(command)
             name       == Split(cmd_prefix)[Len(Split(cmd_prefix))]
             i          == IndexOf(parts, name)
         IN  IF StartsWith(Strip(command), cmd_prefix) /\ flag # <<>> /\ i > 0
             THEN Some(Join(InsertAfter(parts, i, flag)))
             ELSE DryRunFrom(command, k + 1)

\* SafetyGuard.get_dry_run_version
get_dry_run_version(command) == DryRunFrom(command, 1)

\* SafetyGuard.validate_command (static_analysis is taken in Validate)
validate_command(command) ==
    LET a       == assess_risk(command)
        dry_run == get_dry_run_version(command)
    IN
    [command         |-> command,
     risk_level      |-> a[1],
     reason          |-> a[2],
     dry_run_available |-> ~dry_run.none,
     dry_run_command |-> dry_run,
     allow_execution |-> a[1] # "BLOCKED",
     suggest_sandbox |-> a[1] = "HIGH_RISK"]

\* ------------------------------------------------------- command inputs
w_rm    == <<"r","m">>
w_RM    == <<"R","M">>
w_rf    == <<"-","r","f">>
w_RF    == <<"-","R","F">>
w_root  == <<"/">>
w_glob  == <<"/","*">>
w_tmp   == <<"/","t","m","p">>
w_ls    == <<"l","s">>
w_la    == <<"-","l","a">>
w_mkfs  == <<"m","k","f","s",".","e","x","t","4">>
w_pkill == <<"p","k","i","l","l">>
w_x     == <<"x">>

StrCmd(text)   == [kind |-> "str", text |-> text, parts |-> <<>>]
ListCmd(parts) == [kind |-> "list", text |-> <<>>, parts |-> parts]

\* the cmd arguments tried: strings and token lists, SAFE, HIGH_RISK and BLOCKED
CommandInputs == {
    StrCmd(Join(<<w_rm, w_rf, w_root>>)),
    StrCmd(Join(<<w_RM, w_RF, w_root>>)),
    StrCmd(Join(<<w_rm, w_rf, w_root>>) \o <<" ">>),
    StrCmd(Join(<<w_rm, w_rf, w_glob>>)),
    StrCmd(Join(<<w_rm, w_rf, w_tmp>>)),
    StrCmd(Join(<<w_mkfs, w_tmp>>)),
    StrCmd(Join(<<w_pkill, w_x>>)),
    StrCmd(Join(<<w_ls, w_la>>)),
    ListCmd(<<w_rm, w_rf, w_root>>),
    ListCmd(<<w_rm, Join(<<w_rf, w_root>>)>>),
    ListCmd(<<w_rm, w_rf, w_tmp>>),
    ListCmd(<<w_ls, w_la>>)
}

\* run_command's normalisation of cmd (os_layer.py 126-131)
cmd_str(cmd)  == IF cmd.kind = "str" THEN cmd.text ELSE Join(cmd.parts)
cmd_list(cmd) == IF cmd.kind = "str" THEN Split(cmd.text) ELSE cmd.parts

\* guard.validate_command(cmd_str) for each command text that is tried
Assessments == [c \in {cmd_str(cmd) : cmd \in CommandInputs} |-> validate_command(c)]

\* ---------------------------------------------------------------- OSLayer
NoAssessment == [command |-> <<>>, risk_level |-> NoValue,
                 reason |-> [text |-> "", list |-> "", pattern |-> 0],
                 dry_run_available |-> FALSE, dry_run_command |-> None,
                 allow_execution |-> FALSE, suggest_sandbox |-> FALSE]
NoReason     == [text |-> "", list |-> "", pattern |-> 0]
NoResult     == [success |-> FALSE, stderr |-> [tag |-> NoValue, reason |-> NoReason],
                 returncode |-> 0, timed_out |-> FALSE, returned |-> FALSE]
NoCall       == [cmd |-> StrCmd(<<>>), shell |-> FALSE]

Returned(success, tag, reason, rc, timedOut) ==
    [success |-> success, stderr |-> [tag |-> tag, reason |-> reason],
     returncode |-> rc, timed_out |-> timedOut, returned |-> TRUE]

InitOS ==
    /\ pc = [t \in Threads |-> "idle"]
    /\ call = [t \in Threads |-> NoCall]
    /\ assessment = [t \in Threads |-> NoAssessment]
    /\ proc = [t \in Threads |-> 0]
    /\ result = [t \in Threads |-> NoResult]
    /\ active_processes = <<>>
    /\ procs = <<>>
    /\ shellcheck_path \in BOOLEAN
    /\ analysed = 0
    /\ calls = 0
    /\ is_shutting_down = FALSE
    /\ hpc = "idle"
    /\ hidx = 0
    /\ termCalls = <<>>
    /\ hookIdx = 0
    /\ hookCalls = <<>>
    /\ signals = 0

\* the variables of OSLayer at rest, for the other components' specifications
IdleOS ==
    /\ pc = [t \in Threads |-> "idle"]
    /\ call = [t \in Threads |-> NoCall]
    /\ assessment = [t \in Threads |-> NoAssessment]
    /\ proc = [t \in Threads |-> 0]
    /\ result = [t \in Threads |-> NoResult]
    /\ active_processes = <<>>
    /\ procs = <<>>
    /\ shellcheck_path = FALSE
    /\ analysed = 0
    /\ calls = 0
    /\ is_shutting_down = FALSE
    /\ hpc = "idle"
    /\ hidx = 0
    /\ termCalls = <<>>
    /\ hookIdx = 0
    /\ hookCalls = <<>>
    /\ signals = 0

\* run_command entered: cmd normalised, guard.validate_command(cmd_str) called
\* (os_layer.py 116-135; safety.py 138-165, run_static_analysis runs shellcheck
\* over the text when it is installed)
Validate(t, cmd, shell) ==
    /\ pc[t] \in {"idle", "returned", "raised"}
    /\ calls < MaxCalls
    /\ calls' = calls + 1
    /\ call' = [call EXCEPT ![t] = [cmd |-> cmd, shell |-> shell]]
    /\ assessment' = [assessment EXCEPT ![t] = Assessments[cmd_str(cmd)]]
    /\ analysed' = IF shellcheck_path THEN analysed + 1 ELSE analysed
    /\ proc' = [proc EXCEPT ![t] = 0]
    /\ result' = [result EXCEPT ![t] = NoResult]
    /\ pc' = [pc EXCEPT ![t] = "validated"]
    /\ UNCHANGED <<active_processes, procs, shellcheck_path>>
    /\ UNCHANGED shutVars
    /\ OSOnly

\* gate without its BLOCKED test: whatever is not HIGH_RISK goes to the spawner
gate_unblocked(a) ==
    IF a.risk_level = "HIGH_RISK" THEN "refuse-high-risk" ELSE "spawn"

\* a gate that goes by the assessment's allow_execution
gate_allow_execution(a) ==
    IF ~a.allow_execution THEN "refuse-blocked" ELSE "spawn"

\* the decision taken on the assessment (os_layer.py 137-160): "refuse-blocked",
\* "refuse-high-risk" or "spawn"
gate(a) ==
    IF a.risk_level = "BLOCKED" THEN "refuse-blocked"
    ELSE IF a.risk_level = "HIGH_RISK" THEN "refuse-high-risk"
    ELSE "spawn"

\* the dict returned for a BLOCKED assessment (os_layer.py 138-145)
blocked_result(a) == Returned(FALSE, "SAFETY BLOCK", NoReason, -1, FALSE)

\* the dict returned for a HIGH_RISK assessment (os_layer.py 153-160)
high_risk_result(a) == Returned(FALSE, "HIGH RISK BLOCKED", a.reason, -1, FALSE)

\* os_layer.py 137-160
Gate(t) ==
    /\ pc[t] = "validated"
    /\ LET g == gate(assessment[t]) IN
       \/ /\ g = "refuse-blocked"
          /\ result' = [result EXCEPT ![t] = blocked_result(assessment[t])]
          /\ pc' = [pc EXCEPT ![t] = "returned"]
       \/ /\ g = "refuse-high-risk"
          /\ result' = [result EXCEPT ![t] = high_risk_result(assessment[t])]
          /\ pc' = [pc EXCEPT ![t] = "returned"]
       \/ /\ g = "spawn"
          /\ result' = result
          /\ pc' = [pc EXCEPT ![t] = "spawn"]
    /\ UNCHANGED <<call, assessment, proc, active_processes, procs,
                   shellcheck_path, analysed, calls>>
    /\ UNCHANGED shutVars
    /\ OSOnly

\* subprocess.Popen succeeds (os_layer.py 171-181): a process exists. kids tells
\* whether the command starts child processes of its own; Popen is called
\* without start_new_session, the children belong to the command.
Popen(t, kids) ==
    /\ pc[t] = "spawn"
    /\ procs' = Append(procs,
                       [cmd     |-> cmd_str(call[t].cmd),
                        argv    |-> IF call[t].shell THEN <<cmd_str(call[t].cmd)>>
                                    ELSE cmd_list(call[t].cmd),
                        shell   |-> call[t].shell,
                        level   |-> assessment[t].risk_level,
                        state   |-> "running",
                        rc      |-> 0,
                        children |-> IF kids THEN "running" ELSE "none"])
    /\ proc' = [proc EXCEPT ![t] = Len(procs) + 1]
    /\ pc' = [pc EXCEPT ![t] = "register"]
    /\ UNCHANGED <<call, assessment, result, active_processes,
                   shellcheck_path, analysed, calls>>
    /\ UNCHANGED shutVars
    /\ OSOnly

\* the handlers of run_command without the last one
caught_known_only(exc) == exc \in {"FileNotFoundError", "PermissionError"}

\* whether a handler of run_command's try block catches the exception
\* (os_layer.py 212, 221, 230: the last one is `except Exception`)
caught(exc) == exc \in {"FileNotFoundError", "PermissionError", "Exception"}

\* the dict each handler returns (os_layer.py 212-238)
spawn_error_result(exc) ==
    CASE exc = "FileNotFoundError" -> Returned(FALSE, "Command not found", NoReason, -1, FALSE)
      [] exc = "PermissionError"   -> Returned(FALSE, "Permission denied", NoReason, -1, FALSE)
      [] OTHER                     -> Returned(FALSE, "Unexpected error", NoReason, -1, FALSE)

\* subprocess.Popen raises (os_layer.py 212-238): no process, failure as data
PopenFails(t, exc) ==
    /\ pc[t] = "spawn"
    /\ IF caught(exc)
       THEN /\ result' = [result EXCEPT ![t] = spawn_error_result(exc)]
            /\ pc' = [pc EXCEPT ![t] = "returned"]
       ELSE /\ result' = result
            /\ pc' = [pc EXCEPT ![t] = "raised"]
    /\ UNCHANGED <<call, assessment, proc, active_processes, procs,
                   shellcheck_path, analysed, calls>>
    /\ UNCHANGED shutVars
    /\ OSOnly

\* self._active_processes.append(proc) (os_layer.py 182)
Register(t) ==
    /\ pc[t] = "register"
    /\ active_processes' = Append(active_processes, proc[t])
    /\ pc' = [pc EXCEPT ![t] = "communicate"]
    /\ UNCHANGED <<call, assessment, proc, result, procs,
                   shellcheck_path, analysed, calls>>
    /\ UNCHANGED shutVars
    /\ OSOnly

\* list.remove(x) guarded by "x in list" (os_layer.py 198-199)
Remove(list, x) ==
    IF \E i \in 1..Len(list) : list[i] = x
    THEN LET k == CHOOSE i \in 1..Len(list) :
                      list[i] = x /\ \A m \in 1..(i - 1) : list[m] # x
         IN  SubSeq(list, 1, k - 1) \o SubSeq(list, k + 1, Len(list))
    ELSE list

ExitCodes  == {0, 1}
SpawnErrors == {"FileNotFoundError", "PermissionError", "Exception"}

\* the dict returned for a process that has ended (os_layer.py 202-210)
completed_result(rc) == Returned(rc = 0, "", NoReason, rc, FALSE)

\* the return code of a process ended by SIGTERM, by SIGKILL
SIGTERM_rc == -15
SIGKILL_rc == -9

\* proc.communicate(timeout) returns: the process exited with rc, or it was
\* terminated by the shutdown handler (os_layer.py 185, 197-210)
Communicate(t, rc) ==
    /\ pc[t] = "communicate"
    /\ procs[proc[t]].state \in {"running", "terminated", "killed-on-shutdown"}
    /\ procs[proc[t]].state = "terminated" => rc = SIGTERM_rc
    /\ procs[proc[t]].state = "killed-on-shutdown" => rc = SIGKILL_rc
    /\ procs[proc[t]].state = "running" => rc \in ExitCodes
    /\ procs' = [procs EXCEPT ![proc[t]].state =
                     IF @ = "running" THEN "exited" ELSE @,
                               ![proc[t]].rc = rc]
    /\ active_processes' = Remove(active_processes, proc[t])
    /\ result' = [result EXCEPT ![t] = completed_result(rc)]
    /\ pc' = [pc EXCEPT ![t] = "returned"]
    /\ UNCHANGED <<call, assessment, proc, shellcheck_path, analysed, calls>>
    /\ UNCHANGED shutVars
    /\ OSOnly

\* proc.communicate(timeout) raises TimeoutExpired: kill, reap, report
\* (os_layer.py 186-199)
TimeoutExpired(t) ==
    /\ pc[t] = "communicate"
    /\ procs[proc[t]].state = "running"
    /\ procs' = [procs EXCEPT ![proc[t]].state = "killed", ![proc[t]].rc = -9]
    /\ active_processes' = Remove(active_processes, proc[t])
    /\ result' = [result EXCEPT ![t] = Returned(FALSE, "TIMEOUT", NoReason, -1, TRUE)]
    /\ pc' = [pc EXCEPT ![t] = "returned"]
    /\ UNCHANGED <<call, assessment, proc, shellcheck_path, analysed, calls>>
    /\ UNCHANGED shutVars
    /\ OSOnly

\* self._shutdown_hooks as main registers them (lia.py 74-77, os_layer.py 110-112)
shutdown_hooks == <<"central_memory.close", "audit_manager.close", "feedback_manager.close">>

\* a handler that never takes itself to be running already
returns_never(flag) == FALSE

\* `if self._is_shutting_down: return` (os_layer.py 84-85)
returns_at_once(flag) == flag

\* A shutdown signal arrives and _handle_shutdown is entered in the main thread
\* (os_layer.py 82-86). With the flag set it returns at once and the handler it
\* interrupted goes on; otherwise it sets the flag and starts its walk (a handler
\* entered anew inside a running one would run to its own sys.exit).
HandleShutdown ==
    /\ hpc # "exited"
    /\ signals < MaxSignals
    /\ signals' = signals + 1
    /\ IF returns_at_once(is_shutting_down)
       THEN UNCHANGED <<is_shutting_down, hpc, hidx, hookIdx>>
       ELSE /\ is_shutting_down' = TRUE
            /\ hpc' = "walk"
            /\ hidx' = 1
            /\ hookIdx' = 0
    /\ UNCHANGED <<pc, call, assessment, proc, result, active_processes, procs,
                   shellcheck_path, analysed, calls, termCalls, hookCalls>>
    /\ OSOnly

\* what proc.terminate(); proc.wait(timeout=5) can do (os_layer.py 90-97): the
\* process ends, the wait times out or a call raises, and then it is killed
TerminateOutcomes == {"ended", "wait-timeout", "raises"}

\* one iteration of `for proc in self._active_processes` (os_layer.py 89-97):
\* the list iterator takes the element at its index, if there is one, and the
\* process is terminated, killed if it does not end within the wait; when the
\* index is past the end of the list the handler goes on to the hooks
\* (os_layer.py 99-100). The list is the one run_command appends to and removes
\* from, without a lock.
ShutdownStep(outcome) ==
    /\ hpc = "walk"
    /\ IF hidx <= Len(active_processes)
       THEN /\ procs' = [procs EXCEPT ![active_processes[hidx]].state =
                            IF @ # "running" THEN @
                            ELSE IF outcome = "ended" THEN "terminated"
                            ELSE "killed-on-shutdown"]
            /\ termCalls' = Append(termCalls, [proc |-> active_processes[hidx],
                                               outcome |-> outcome])
            /\ hidx' = hidx + 1
            /\ UNCHANGED <<hpc, hookIdx>>
       ELSE /\ outcome = "ended"
            /\ hpc' = "hooks"
            /\ hookIdx' = 1
            /\ UNCHANGED <<procs, hidx, termCalls>>
    /\ UNCHANGED <<pc, call, assessment, proc, result, active_processes,
                   shellcheck_path, analysed, calls, is_shutting_down, hookCalls, signals>>
    /\ OSOnly

\* one iteration of `for hook in self._shutdown_hooks` (os_layer.py 100-104): the
\* hook is called and what it raises is logged; after the last one the handler
\* exits (os_layer.py 107-108)
RunHook(raises) ==
    /\ hpc = "hooks"
    /\ IF hookIdx <= Len(shutdown_hooks)
       THEN /\ hookCalls' = Append(hookCalls, [hook |-> hookIdx, raised |-> raises])
            /\ hookIdx' = hookIdx + 1
            /\ hpc' = hpc
       ELSE /\ ~raises
            /\ hpc' = "exited"
            /\ UNCHANGED <<hookCalls, hookIdx>>
    /\ UNCHANGED <<pc, call, assessment, proc, result, active_processes, procs,
                   shellcheck_path, analysed, calls, is_shutting_down, hidx, termCalls,
                   signals>>
    /\ OSOnly

\* the cmd arguments run_command is called with: BLOCKED as text and as token
\* list, HIGH_RISK, SAFE as text and as token list
RunInputs == {
    StrCmd(Join(<<w_rm, w_rf, w_root>>)),
    ListCmd(<<w_rm, w_rf, w_root>>),
    StrCmd(Join(<<w_rm, w_rf, w_tmp>>)),
    StrCmd(Join(<<w_ls, w_la>>)),
    ListCmd(<<w_ls, w_la>>)
}

NextOS ==
    \/ \E t \in Threads, cmd \in RunInputs, shell \in BOOLEAN : Validate(t, cmd, shell)
    \/ \E t \in Threads : Gate(t)
    \/ \E t \in Threads, kids \in BOOLEAN : Popen(t, kids)
    \/ \E t \in Threads, exc \in SpawnErrors : PopenFails(t, exc)
    \/ \E t \in Threads : Register(t)
    \/ \E t \in Threads, rc \in ExitCodes \cup {SIGTERM_rc} : Communicate(t, rc)
    \/ \E t \in Threads : TimeoutExpired(t)

\* run_command calls in worker threads while the shutdown signal is handled
NextShutdown ==
    \/ \E t \in Threads : Validate(t, ListCmd(<<w_ls, w_la>>), FALSE)
    \/ \E t \in Threads : Gate(t)
    \/ \E t \in Threads : Popen(t, FALSE)
    \/ \E t \in Threads : Register(t)
    \/ \E t \in Threads, rc \in {0, SIGTERM_rc, SIGKILL_rc} : Communicate(t, rc)
    \/ \E t \in Threads : TimeoutExpired(t)
    \/ HandleShutdown
    \/ \E outcome \in TerminateOutcomes : ShutdownStep(outcome)
    \/ \E raises \in BOOLEAN : RunHook(raises)

\* ------------------------------------------------------------------ paths
\* A path is its text, a sequence of characters. The filesystem of the model:
\* home /h, working directory /h/w, and possibly a symbolic link /h/d/l -> /etc.
NUL == "NUL"     \* an embedded null byte: realpath raises ValueError

RECURSIVE Concat(_)
Concat(seqs) == IF Len(seqs) = 0 THEN <<>> ELSE seqs[1] \o Concat(Tail(seqs))

\* the components between the "/" of a path text
RECURSIVE SplitSlashFrom(_, _, _, _)
SplitSlashFrom(s, i, cur, acc) ==
    IF i > Len(s) THEN Append(acc, cur)
    ELSE IF s[i] = "/" THEN SplitSlashFrom(s, i + 1, <<>>, Append(acc, cur))
    ELSE SplitSlashFrom(s, i + 1, Append(cur, s[i]), acc)
SplitSlash(s) == SplitSlashFrom(s, 1, <<>>, <<>>)

\* the text of an absolute path with the given components
ToText(comps) ==
    IF Len(comps) = 0 THEN <<"/">>
    ELSE Concat([i \in 1..Len(comps) |-> <<"/">> \o comps[i]])

HomeDir == <<"/","h">>
Cwd     == <<"/","h","w">>

\* os.path.expanduser: a leading "~" alone or before "/" becomes the home directory
expanduser(path) ==
    IF Len(path) >= 1 /\ path[1] = "~" /\ (Len(path) = 1 \/ path[2] = "/")
    THEN HomeDir \o SubSeq(path, 2, Len(path))
    ELSE path

\* os.path.normpath on the components of an absolute path: empty and "."
\* components dropped, ".." removes the component before it (lexically)
RECURSIVE NormFrom(_, _, _)
NormFrom(comps, i, acc) ==
    IF i > Len(comps) THEN acc
    ELSE LET c == comps[i] IN
         IF c = <<>> \/ c = <<".">> THEN NormFrom(comps, i + 1, acc)
         ELSE IF c = <<".",".">>
              THEN NormFrom(comps, i + 1,
                            IF Len(acc) = 0 THEN acc ELSE SubSeq(acc, 1, Len(acc) - 1))
              ELSE NormFrom(comps, i + 1, Append(acc, c))

\* os.path.abspath: join with the working directory when relative, then normpath;
\* the result as components
abspath(path) ==
    LET full == IF Len(path) >= 1 /\ path[1] = "/" THEN path ELSE Cwd \o <<"/">> \o path
    IN  NormFrom(SplitSlash(full), 1, <<>>)

\* the symbolic links the filesystem may hold: link components -> target components
PossibleLinks == { [at |-> <<<<"h">>, <<"d">>, <<"l">>>>, to |-> <<<<"e","t","c">>>>] }

\* os.path.realpath on normalised components: each prefix that is a symbolic link
\* is replaced by its target
RECURSIVE RealFrom(_, _, _, _)
RealFrom(comps, i, acc, lk) ==
    IF i > Len(comps) THEN acc
    ELSE LET nxt == Append(acc, comps[i]) IN
         IF \E l \in lk : l.at = nxt
         THEN RealFrom(comps, i + 1, (CHOOSE l \in lk : l.at = nxt).to, lk)
         ELSE RealFrom(comps, i + 1, nxt, lk)

Invalid == <<NUL>>

\* os.path.realpath(os.path.abspath(os.path.expanduser(path))) as text; Invalid
\* when it raises (permissions.py 100-104, 160)
resolve(path, lk) ==
    IF \E i \in 1..Len(path) : path[i] = NUL THEN Invalid
    ELSE ToText(RealFrom(abspath(expanduser(path)), 1, <<>>, lk))

\* ------------------------------------------------------ PermissionManager
Operation == {"READ", "WRITE", "EXECUTE", "DELETE"}

\* _get_system_blocked_paths, POSIX branch (permissions.py 88-91)
blocked_paths == <<
    <<"/","e","t","c">>, <<"/","b","o","o","t">>, <<"/","r","o","o","t">>,
    <<"/","v","a","r","/","l","o","g">>, <<"/","u","s","r","/","s","b","i","n">>,
    <<"/","p","r","o","c">>, <<"/","s","y","s">>, <<"/","d","e","v">> >>

\* the check of the blacklist (permissions.py 112-116)
is_blocked(abs_path) ==
    \E i \in 1..Len(blocked_paths) : StartsWith(abs_path, blocked_paths[i])

\* the check of the whitelist (permissions.py 119-123)
is_whitelisted(abs_path, allowed) ==
    \E i \in 1..Len(allowed) : StartsWith(abs_path, allowed[i])

\* decide with the whitelist consulted first and the blacklist only after it
decide_whitelist_first(abs_path, allowed) ==
    IF is_whitelisted(abs_path, allowed) THEN TRUE ELSE FALSE

\* the uncached decision (permissions.py 111-129)
decide(abs_path, allowed) ==
    IF is_blocked(abs_path) THEN FALSE ELSE is_whitelisted(abs_path, allowed)

\* cache_key = f"{abs_path}:{operation.name}" (permissions.py 107)
cache_key(abs_path, operation) == <<abs_path, operation>>

\* what is_path_allowed returns for a resolved path (permissions.py 106-129)
lookup(abs_path, operation, allowed, c) ==
    IF cache_key(abs_path, operation) \in DOMAIN c
    THEN c[cache_key(abs_path, operation)]
    ELSE decide(abs_path, allowed)

\* the cache after is_path_allowed (permissions.py 108-109, 115, 128)
cache_after(abs_path, operation, allowed, c) ==
    IF cache_key(abs_path, operation) \in DOMAIN c THEN c
    ELSE [k \in DOMAIN c \cup {cache_key(abs_path, operation)} |->
            IF k \in DOMAIN c THEN c[k] ELSE decide(abs_path, allowed)]

EmptyCache == [k \in {} |-> FALSE]

\* add_allowed_path without the invalidation of the cache
cache_kept_after_add(c) == c

\* the cache after add_allowed_path appended a new entry (permissions.py 163)
cache_after_add(c) == EmptyCache

\* the paths given to is_path_allowed
p_etc_passwd == <<"/","e","t","c","/","p">>
p_traversal  == <<"/","h","/","d","/",".",".","/",".",".","/","e","t","c","/","p">>
p_via_link   == <<"/","h","/","d","/","l","/","p">>
p_in_docs    == <<"~","/","d","/","f">>
p_trav_docs  == <<"/","h","/","d","/",".",".","/","d","x","/","f">>
p_relative   == <<"f">>
p_tmp        == <<"/","t","m","p","/","f">>
p_etcx       == <<"/","e","t","c","x">>
p_invalid    == <<"/","h","/",NUL>>

PathInputs == {p_etc_passwd, p_traversal, p_via_link, p_in_docs, p_trav_docs,
               p_relative, p_tmp, p_etcx, p_invalid}

\* the paths given to add_allowed_path
AddInputs == { <<"/","e","t","c">>, <<"~","/","d">>, <<"/","t","m","p">>, <<"/">> }

\* the operations tried
OpInputs == {"READ", "WRITE"}

\* permissions.allowed_paths of the configuration, resolved (permissions.py 40-45)
ConfigAllowed == { <<>>,
                   << <<"/","h","/","d">> >>,
                   << <<"/","h","/","d">>, Cwd >>,
                   << Cwd, <<"/","e","t","c">> >> }

\* resolve(path, links) for each path that is tried, under each filesystem
Resolved == [x \in (PathInputs \cup AddInputs) \X (SUBSET PossibleLinks) |->
                resolve(x[1], x[2])]

NoCheck == [op |-> NoValue, path |-> <<>>, operation |-> NoValue, abs_path |-> <<>>,
            returned |-> FALSE, added |-> <<>>, prevAdded |-> <<>>, wasDenied |-> FALSE,
            prevOp |-> NoValue, prevPath |-> <<>>, prevReturned |-> FALSE]

InitPerm ==
    /\ allowed_paths \in ConfigAllowed
    /\ cache = EmptyCache
    /\ links \in SUBSET PossibleLinks
    /\ lastCheck = NoCheck
    /\ denied = {}
    /\ permOps = 0

IdlePerm ==
    /\ allowed_paths = <<>>
    /\ cache = EmptyCache
    /\ links = {}
    /\ lastCheck = NoCheck
    /\ denied = {}
    /\ permOps = 0

\* PermissionManager.is_path_allowed (permissions.py 94-129)
is_path_allowed(path, operation) ==
    /\ permOps < MaxPermOps
    /\ permOps' = permOps + 1
    /\ LET abs_path == Resolved[<<path, links>>] IN
       IF abs_path = Invalid
       THEN /\ cache' = cache
            /\ denied' = denied
            /\ lastCheck' = [NoCheck EXCEPT !.op = "is_path_allowed", !.path = path,
                                !.operation = operation, !.abs_path = Invalid,
                                !.returned = FALSE]
       ELSE LET r == lookup(abs_path, operation, allowed_paths, cache) IN
            /\ cache' = cache_after(abs_path, operation, allowed_paths, cache)
            /\ denied' = IF r THEN denied ELSE denied \cup {abs_path}
            /\ lastCheck' = [NoCheck EXCEPT !.op = "is_path_allowed", !.path = path,
                                !.operation = operation, !.abs_path = abs_path,
                                !.returned = r, !.prevAdded = lastCheck.added,
                                !.wasDenied = abs_path \in denied,
                                !.prevOp = lastCheck.op, !.prevPath = lastCheck.path,
                                !.prevReturned = lastCheck.returned]
    /\ UNCHANGED <<allowed_paths, links>>
    /\ PermOnly

\* PermissionManager.add_allowed_path (permissions.py 158-168)
add_allowed_path(path) ==
    /\ permOps < MaxPermOps
    /\ permOps' = permOps + 1
    /\ LET resolved == Resolved[<<path, links>>]
           isNew    == \A i \in 1..Len(allowed_paths) : allowed_paths[i] # resolved
       IN  /\ resolved # Invalid
           /\ allowed_paths' = IF isNew THEN Append(allowed_paths, resolved) ELSE allowed_paths
           /\ cache' = IF isNew THEN cache_after_add(cache) ELSE cache
           /\ lastCheck' = [NoCheck EXCEPT !.op = "add_allowed_path", !.path = path,
                               !.abs_path = resolved,
                               !.added = IF isNew THEN resolved ELSE <<>>]
    /\ UNCHANGED <<links, denied>>
    /\ PermOnly

\* PermissionManager.clear_cache (permissions.py 170-172)
clear_cache ==
    /\ permOps < MaxPermOps
    /\ permOps' = permOps + 1
    /\ cache' = EmptyCache
    /\ lastCheck' = [NoCheck EXCEPT !.op = "clear_cache"]
    /\ UNCHANGED <<allowed_paths, links, denied>>
    /\ PermOnly

NextPerm ==
    \/ \E path \in PathInputs, operation \in OpInputs : is_path_allowed(path, operation)
    \/ \E path \in AddInputs : add_allowed_path(path)
    \/ clear_cache

\* ----------------------------------------------------------- Orchestrator
\* self.agents: the registered capabilities
Agents == {"A"}

\* The elements the Oracle may put in "steps". The id of a step that has one is
\* its position in the list.
StepKinds == {"good", "unknown-agent", "no-agent", "no-task", "no-id",
              "no-id-unknown", "not-a-record"}

StepOf(kind, i) ==
    [rec   |-> kind # "not-a-record",
     hasId |-> kind \notin {"no-id", "no-id-unknown", "not-a-record"},
     id    |-> IF kind \in {"no-id", "no-id-unknown", "not-a-record"} THEN 0 ELSE i,
     agent |-> CASE kind \in {"unknown-agent", "no-id-unknown"} -> "X"
                 [] kind \in {"no-agent", "not-a-record"}       -> NoValue
                 [] OTHER                                        -> "A",
     task  |-> IF kind \in {"no-task", "not-a-record"} THEN NoValue ELSE "task"]

StepLists == UNION { [1..n -> StepKinds] : n \in 0..MaxSteps }

\* What plan() meets: the context lookup raising or not, and the Oracle's response.
\* response: "empty", "connerr" (the bridge's "Error connecting ..." text), "nonjson",
\* or "json" with the decoded value described by isDict, hasSteps, shape and kinds.
\* shape: what plan["steps"] is: "list", "string" (sized, iterable, no list),
\* "null" (len() raises TypeError)
OracleInputs ==
    { [context |-> c, response |-> r, isDict |-> FALSE, hasSteps |-> FALSE,
       shape |-> "list", kinds |-> <<>>] :
         c \in {"ok", "raises"}, r \in {"empty", "connerr", "nonjson", "json"} }
    \cup
    { [context |-> "ok", response |-> "json", isDict |-> TRUE, hasSteps |-> FALSE,
       shape |-> "list", kinds |-> <<>>] }
    \cup
    { [context |-> "ok", response |-> "json", isDict |-> TRUE, hasSteps |-> TRUE,
       shape |-> "null", kinds |-> <<>>] }
    \cup
    { [context |-> "ok", response |-> "json", isDict |-> TRUE, hasSteps |-> TRUE,
       shape |-> "string", kinds |-> [i \in 1..n |-> "not-a-record"]] : n \in 0..1 }
    \cup
    { [context |-> "ok", response |-> "json", isDict |-> TRUE, hasSteps |-> TRUE,
       shape |-> "list", kinds |-> k] : k \in StepLists }

QueryInputs == {"empty", "text"}

PlanError(msg) == [error |-> TRUE, msg |-> msg, shape |-> "list", steps |-> <<>>]
PlanOf(o)      == [error |-> FALSE, msg |-> "", shape |-> o.shape,
                   steps |-> [i \in 1..Len(o.kinds) |-> StepOf(o.kinds[i], i)]]
NoPlan         == [error |-> FALSE, msg |-> NoValue, shape |-> "list", steps |-> <<>>]

\* Orchestrator.plan (orchestrator.py 37-91)
plan_value(q, o) ==
    IF q = "empty" THEN PlanError("Empty query provided")
    ELSE IF o.context = "raises" THEN PlanError("Unexpected error")
    ELSE IF o.response = "empty" THEN PlanError("LLM returned empty response")
    ELSE IF o.response = "connerr" THEN PlanError("Error connecting to LLM")
    ELSE IF o.response = "nonjson" THEN PlanError("Invalid JSON from LLM")
    ELSE IF ~o.isDict \/ ~o.hasSteps THEN PlanError("Invalid plan structure from LLM")
    ELSE IF o.shape = "null" THEN PlanError("Unexpected error")
    ELSE PlanOf(o)

\* run_stream without its test of the planning error
plan_never_failed(p) == FALSE

\* the test `"error" in plan` of run_stream (orchestrator.py 99)
plan_failed(p) == p.error

\* events, as run_stream yields them; hasStep tells whether the event has a "step" key
Event(status, step, message) ==
    [status |-> status, hasStep |-> TRUE, step |-> step, message |-> message]
EventNoStep(status, message) ==
    [status |-> status, hasStep |-> FALSE, step |-> 0, message |-> message]

\* the test run() makes on every event it is handed (orchestrator.py 169)
run_returns_early(ev) == ev.status = "error" /\ ~ev.hasStep

\* run()'s return value when it returns early (orchestrator.py 170)
synthetic(ev) == << [step |-> 0, text |-> "Error: " \o ev.message] >>

\* sub in text, for two texts
Occurs(sub, text) ==
    \E i \in 1..(Len(text) - Len(sub) + 1) : SubSeq(text, i, i + Len(sub) - 1) = sub

\* sub in text.lower(), for a lower-case sub
OccursLower(sub, text) ==
    \E i \in 1..(Len(text) - Len(sub) + 1) :
        \A k \in 1..Len(sub) :
            Lower(SubSeq(text, i + k - 1, i + k - 1)) = SubSeq(sub, k, k)

\* success = "Error" not in str(result) (orchestrator.py 125)
HasMarker(text) == Occurs("Error", text)

\* LIAError.to_user_string of an error without suggestion (errors.py 100-105)
to_user_string(code, message) == "[" \o code \o "] " \o message

\* str(LIAResult.ok(data)) and str(LIAResult.fail(code, message))
\* (errors.py 122-140)
LIAResult_ok(data)            == data
LIAResult_fail(code, message) == to_user_string(code, message)

\* the text of a tool that did what it was asked; every other text a capability
\* returns reports a failure
ok_text == LIAResult_ok("ok")
ReportsFailure(text) == text # ok_text

NotReturned == [returned |-> FALSE, value |-> <<>>]

NoOracle == [context |-> "ok", response |-> NoValue, isDict |-> FALSE, hasSteps |-> FALSE,
             shape |-> "list", kinds |-> <<>>]

InitOrch ==
    /\ opc = "idle"
    /\ mode \in {"run", "stream"}
    /\ query \in QueryInputs
    /\ oracle = NoOracle
    /\ plan = NoPlan
    /\ stepIdx = 0
    /\ events = <<>>
    /\ results = <<>>
    /\ dispatched = <<>>
    /\ raised = {}
    /\ returnedFail = {}
    /\ feedbackLog = <<>>
    /\ auditLog = <<>>
    /\ history = <<>>
    /\ runResult = NotReturned

IdleOrch ==
    /\ opc = "idle"
    /\ mode = "stream"
    /\ query = "text"
    /\ oracle = NoOracle
    /\ plan = NoPlan
    /\ stepIdx = 0
    /\ events = <<>>
    /\ results = <<>>
    /\ dispatched = <<>>
    /\ raised = {}
    /\ returnedFail = {}
    /\ feedbackLog = <<>>
    /\ auditLog = <<>>
    /\ history = <<>>
    /\ runResult = NotReturned

\* The event ev is yielded. A consumer of the stream takes it and resumes the
\* generator at position `then`; run() does the same unless the event makes it
\* return (orchestrator.py 166-171), which leaves the generator where it is.
Yield(ev, then) ==
    /\ events' = Append(events, ev)
    /\ IF mode = "run" /\ run_returns_early(ev)
       THEN /\ opc' = "ended"
            /\ runResult' = [returned |-> TRUE, value |-> synthetic(ev)]
       ELSE /\ opc' = then
            /\ runResult' = runResult

\* run_stream entered: yield planning (orchestrator.py 96)
StartStream ==
    /\ opc = "idle"
    /\ Yield(EventNoStep("planning", ""), "planning")
    /\ UNCHANGED <<mode, query, oracle, plan, stepIdx, results, dispatched, raised,
                   returnedFail, feedbackLog, auditLog, history>>
    /\ OrchOnly

\* plan = await self.plan(user_query), then the error event or planned
\* (orchestrator.py 97-105)
Plan(o) ==
    /\ opc = "planning"
    /\ oracle' = o
    /\ plan' = plan_value(query, o)
    /\ IF plan_failed(plan')
       THEN /\ Yield(EventNoStep("error", "Planning Error: " \o plan'.msg), "ended")
            /\ stepIdx' = stepIdx
       ELSE /\ Yield(EventNoStep("planned", ""), "loop")
            /\ stepIdx' = 1
    /\ UNCHANGED <<mode, query, results, dispatched, raised, returnedFail,
                   feedbackLog, auditLog, history>>
    /\ OrchOnly

\* the outer handler (orchestrator.py 159-161): one Fatal Error event, then the
\* generator is over
Fatal == Yield(EventNoStep("error", "Fatal Error"), "ended")

\* a crash that ends the loop
after_crash_abort(i, n) == n + 1

\* the position after a step whose capability crashed (orchestrator.py 143-148:
\* the handler falls through to the next iteration)
after_crash(i, n) == i + 1

\* the completed event without its "step" key
completed_event_no_step(id) == [status |-> "completed", hasStep |-> FALSE, step |-> 0,
                                message |-> ""]

\* the events a completed step yields (orchestrator.py 141)
completed_event(id) == Event("completed", id, "")

\* one iteration of the for loop up to the capability call or the end of the
\* iteration (orchestrator.py 106-115, 149-153)
Dispatch ==
    /\ opc = "loop"
    /\ stepIdx <= Len(plan.steps)
    /\ LET step == plan.steps[stepIdx] IN
       IF ~step.rec
       THEN \* step.get raises AttributeError
            /\ Fatal
            /\ UNCHANGED <<stepIdx, results, dispatched>>
       ELSE IF step.agent = NoValue \/ step.task = NoValue
       THEN /\ Yield(EventNoStep("error", "Invalid step"), "loop")
            /\ stepIdx' = stepIdx + 1
            /\ UNCHANGED <<results, dispatched>>
       ELSE IF ~step.hasId
       THEN \* step['id'] raises KeyError
            /\ Fatal
            /\ UNCHANGED <<stepIdx, results, dispatched>>
       ELSE IF step.agent \in Agents
       THEN /\ Yield(Event("executing", step.id, ""), "executing")
            /\ dispatched' = Append(dispatched, stepIdx)
            /\ UNCHANGED <<stepIdx, results>>
       ELSE /\ Yield(Event("error", step.id, "not found"), "loop")
            /\ results' = Append(results, [step |-> step.id, text |-> "Error: not found"])
            /\ stepIdx' = stepIdx + 1
            /\ UNCHANGED dispatched
    /\ UNCHANGED <<mode, query, oracle, plan, raised, returnedFail, feedbackLog,
                   auditLog, history>>
    /\ OrchOnly

\* the capability returned a text (orchestrator.py 121-141)
StepReturns(text) ==
    /\ opc = "executing"
    /\ LET step == plan.steps[stepIdx] IN
       /\ feedbackLog' = Append(feedbackLog,
                                [query |-> query, agent |-> step.agent, command |-> step.task,
                                 step |-> step.id, success |-> ~HasMarker(text)])
       /\ auditLog' = Append(auditLog,
                             [agent |-> step.agent, task |-> step.task, step |-> step.id,
                              status |-> IF HasMarker(text) THEN "error" ELSE "success"])
       /\ results' = Append(results, [step |-> step.id, text |-> text])
       /\ Yield(completed_event(step.id), "loop")
    /\ returnedFail' = IF ReportsFailure(text) THEN returnedFail \cup {stepIdx}
                     ELSE returnedFail
    /\ stepIdx' = stepIdx + 1
    /\ UNCHANGED <<mode, query, oracle, plan, dispatched, raised, history>>
    /\ OrchOnly

\* the capability raised (orchestrator.py 143-148)
StepRaises ==
    /\ opc = "executing"
    /\ LET step == plan.steps[stepIdx] IN
       /\ auditLog' = Append(auditLog,
                             [agent |-> step.agent, task |-> step.task, step |-> step.id,
                              status |-> "error"])
       /\ results' = Append(results, [step |-> step.id, text |-> "Error: crashed"])
       /\ Yield(Event("error", step.id, "crashed"), "loop")
    /\ raised' = raised \cup {stepIdx}
    /\ stepIdx' = after_crash(stepIdx, Len(plan.steps))
    /\ UNCHANGED <<mode, query, oracle, plan, dispatched, returnedFail, feedbackLog, history>>
    /\ OrchOnly

\* the loop is over: history, finished (orchestrator.py 155-157); run() returns
\* the results it was handed (orchestrator.py 167-171)
Finish ==
    /\ opc = "loop"
    /\ stepIdx > Len(plan.steps)
    /\ history' = Append(history, [query |-> query, results |-> results])
    /\ events' = Append(events, EventNoStep("finished", ""))
    /\ opc' = "ended"
    /\ runResult' = IF mode = "run" THEN [returned |-> TRUE, value |-> results]
                    ELSE runResult
    /\ UNCHANGED <<mode, query, oracle, plan, stepIdx, results, dispatched, raised,
                   returnedFail, feedbackLog, auditLog>>
    /\ OrchOnly

\* What the tools of the capabilities return: the data of a success, the
\* structured failures of FileAgent.list_directory (file_agent.py 50),
\* PackageAgent.install (package_agent.py 24) and DatabaseAgent.query
\* (database_agent.py 64), and a plain error text
ToolTexts ==
    { ok_text,
      "Error",
      LIAResult_fail("PATH_DENIED", "Access denied: /etc"),
      LIAResult_fail("INVALID_ARGS", "No package name provided"),
      LIAResult_fail("AGENT_CRASHED", "SQL Error: no such table") }

\* what _self_correct returns when the Oracle declines (base_agent.py 130-131)
CorrectionTexts == { "Self-Correction Failed: no fix" }

\* result and ("Error" in str(result) or "failed" in str(result).lower())
\* (base_agent.py 170)
triggers_correction(res) == HasMarker(res) \/ OccursLower("failed", res)

\* what smart_execute returns for a tool's text (base_agent.py 169-175)
smart_execute_text(res, corrected) ==
    IF triggers_correction(res)
    THEN "Original Error: " \o res \o "\nSelf-Correction Attempt: " \o corrected
    ELSE res

\* the texts execute hands to run_stream (orchestrator.py 121)
ResultTexts ==
    { smart_execute_text(res, corrected) :
          res \in ToolTexts, corrected \in CorrectionTexts }

NextOrch ==
    \/ StartStream
    \/ \E o \in OracleInputs : Plan(o)
    \/ Dispatch
    \/ \E text \in ResultTexts : StepReturns(text)
    \/ StepRaises
    \/ Finish

\* ------------------------------------------------- WIAAgent.smart_execute
\* match_tool_by_keywords (base_agent.py 33-50): the best tool's keyword score;
\* confidence = min(score * 0.4, 1.0), compared with 0.8, in tenths
KeywordScores == 0..3
confident(score) == (IF score * 4 < 10 THEN score * 4 ELSE 10) >= 8

\* The first attempt (base_agent.py 152-167): tier 1 calls the matched tool, which
\* may return a text, return nothing or raise; tier 2 is _llm_execute, which turns
\* every exception into an "Agent Error" text (base_agent.py 72-90).
Tier1Outcomes == {"ok", "empty", "failed", "raised"}
Tier2Outcomes == {"ok", "empty", "failed"}

\* result and ("Error" in str(result) or "failed" in str(result).lower())
\* (base_agent.py 170)
needs_correction(outcome) == outcome = "failed"

\* generate without its catch-all handler: the request may raise
generate_may_raise == {"text", "raises"}

\* What llm_bridge.generate can do when _self_correct calls it outside its try
\* block (base_agent.py 120): generate catches every exception and returns a text
\* (llm_bridge.py 53-66)
generate_outcomes == {"text"}

\* What _self_correct returns once the Oracle has answered (base_agent.py 122-144):
\* every outcome is a text, the tool's own exception included
CorrectionOutcomes == {"declined", "tool-ok", "tool-failed", "tool-raised",
                       "bad-json", "unknown-tool"}

NoAttempt      == [tier |-> 0, score |-> 0, outcome |-> NoValue]
NoAgentResult  == [returned |-> FALSE, original |-> NoValue, correction |-> NoValue]
NoExec         == [scoped_path |-> FALSE, task_ran |-> FALSE, scope_before |-> <<>>,
                   error |-> NoValue]

InitAgent ==
    /\ apc = "idle"
    /\ firstAttempt = NoAttempt
    /\ corrRequests = 0
    /\ corrAfter = <<>>
    /\ corrOutcome = NoValue
    /\ corrWhere = NoValue
    /\ agentResult = NoAgentResult
    /\ execs = 0
    /\ execCall = NoExec

IdleAgent == InitAgent

\* execute with a scoped_path (base_agent.py 184-188): PermissionManager has no
\* attribute temporary_scope (permissions.py 25-188), so evaluating the with
\* item raises AttributeError before smart_execute is called
ExecuteScoped ==
    /\ apc \in {"idle", "returned", "raised"}
    /\ execs < MaxExecs
    /\ execs' = execs + 1
    /\ execCall' = [scoped_path |-> TRUE, task_ran |-> FALSE,
                    scope_before |-> allowed_paths, error |-> "AttributeError"]
    /\ firstAttempt' = NoAttempt
    /\ corrRequests' = 0
    /\ corrAfter' = <<>>
    /\ corrOutcome' = NoValue
    /\ corrWhere' = NoValue
    /\ agentResult' = NoAgentResult
    /\ apc' = "raised"
    /\ AgentOnly

\* execute without scoped_path (base_agent.py 186, 190): smart_execute is
\* entered and the tier is chosen (base_agent.py 151-156, 165)
SmartExecute(score) ==
    /\ apc \in {"idle", "returned", "raised"}
    /\ execs < MaxExecs
    /\ execs' = execs + 1
    /\ execCall' = [scoped_path |-> FALSE, task_ran |-> TRUE,
                    scope_before |-> allowed_paths, error |-> NoValue]
    /\ firstAttempt' = [tier |-> IF score > 0 /\ confident(score) THEN 1 ELSE 2,
                        score |-> score, outcome |-> NoValue]
    /\ corrRequests' = 0
    /\ corrAfter' = <<>>
    /\ corrOutcome' = NoValue
    /\ corrWhere' = NoValue
    /\ agentResult' = NoAgentResult
    /\ apc' = "first-attempt"
    /\ AgentOnly

\* the first attempt is over (base_agent.py 157-175, 177)
FirstAttemptDone(outcome) ==
    /\ apc = "first-attempt"
    /\ outcome \in (IF firstAttempt.tier = 1 THEN Tier1Outcomes ELSE Tier2Outcomes)
    /\ firstAttempt' = [firstAttempt EXCEPT !.outcome = outcome]
    /\ IF outcome = "raised"
       THEN /\ apc' = "self-correct"
            /\ corrWhere' = "except"
            /\ agentResult' = agentResult
       ELSE IF needs_correction(outcome)
       THEN /\ apc' = "self-correct"
            /\ corrWhere' = "try"
            /\ agentResult' = agentResult
       ELSE /\ apc' = "returned"
            /\ corrWhere' = corrWhere
            /\ agentResult' = [returned |-> TRUE, original |-> outcome,
                               correction |-> NoValue]
    /\ UNCHANGED <<corrRequests, corrAfter, corrOutcome, execs, execCall>>
    /\ AgentOnly

\* _self_correct sends its request to the Oracle (base_agent.py 99-120)
SendCorrection(g) ==
    /\ apc = "self-correct"
    /\ corrRequests' = corrRequests + 1
    /\ corrAfter' = Append(corrAfter,
                           IF corrOutcome = "raised" THEN "correction-raised"
                           ELSE IF firstAttempt.outcome = "raised" THEN "first-raised"
                           ELSE "first-failed")
    /\ IF g = "text"
       THEN /\ apc' = "correcting"
            /\ UNCHANGED <<corrOutcome, corrWhere>>
       ELSE IF corrWhere = "try"
       THEN \* the handler of smart_execute catches it and corrects the crash
            /\ apc' = "self-correct"
            /\ corrOutcome' = "raised"
            /\ corrWhere' = "except"
       ELSE /\ apc' = "raised"
            /\ corrOutcome' = "raised"
            /\ UNCHANGED corrWhere
    /\ UNCHANGED <<firstAttempt, agentResult, execs, execCall>>
    /\ AgentOnly

\* _self_correct returns its text and smart_execute returns
\* (base_agent.py 122-144, 172-173, 180)
CorrectionReturns(outcome) ==
    /\ apc = "correcting"
    /\ corrOutcome' = outcome
    /\ agentResult' = [returned   |-> TRUE,
                       original   |-> IF corrWhere = "try" THEN firstAttempt.outcome
                                      ELSE NoValue,
                       correction |-> outcome]
    /\ apc' = "returned"
    /\ UNCHANGED <<firstAttempt, corrRequests, corrAfter, corrWhere, execs, execCall>>
    /\ AgentOnly

NextAgent ==
    \/ ExecuteScoped
    \/ \E score \in KeywordScores : SmartExecute(score)
    \/ \E outcome \in Tier1Outcomes : FirstAttemptDone(outcome)
    \/ \E g \in generate_outcomes : SendCorrection(g)
    \/ \E outcome \in CorrectionOutcomes : CorrectionReturns(outcome)

\* --------------------------------------------------------- FeedbackManager
\* str.lower() of a text
LowerText(text) == [i \in 1..Len(text) |-> Lower(text[i])]

\* the stop words of find_similar (feedback.py 118)
stop_words == { <<"t","h","e">>, <<"a">>, <<"a","n">>, <<"i","s">>, <<"a","r","e">>,
                <<"d","o">>, <<"h","o","w">>, <<"w","h","a","t">>,
                <<"p","l","e","a","s","e">> }

\* the words of a query that are no stop words
NonStopTokens(q) ==
    { LowerText(Split(q)[i]) : i \in 1..Len(Split(q)) } \ stop_words

\* keywords = [w.lower() for w in query.split() if w.lower() not in stop_words
\*             and len(w) > 2] (feedback.py 119)
keywords(q) == { w \in NonStopTokens(q) : Len(w) > 2 }

\* SQLite's `query LIKE '%kw%'`: kw occurs somewhere in the text, letter case
\* ignored
Like(text, kw) ==
    \E i \in 1..(Len(text) - Len(kw) + 1) :
        SubSeq(LowerText(text), i, i + Len(kw) - 1) = LowerText(kw)

\* the queries that are recorded and the queries that are searched for
q_check_ram    == <<"c","h","e","c","k"," ","r","a","m">>
q_ip_program   == <<"i","p"," ","p","r","o","g","r","a","m">>
q_check_memory == <<"C","h","e","c","k"," ","m","e","m","o","r","y">>
q_ram          == <<"r","a","m">>
q_ip           == <<"i","p">>
q_the          == <<"t","h","e">>

RecordQueries == {q_check_ram, q_ip_program}
FindQueries   == {q_check_memory, q_ram, q_ip, q_the}

\* the WHERE condition on the query column, for each searched and recorded query
\* (feedback.py 124-125, 131)
KeywordMatch == [x \in FindQueries \X RecordQueries |->
                    \E kw \in keywords(x[1]) : Like(x[2], kw)]

\* whether the keyword list of a searched query is empty (feedback.py 121-122)
NoKeywords == [q \in FindQueries |-> keywords(q) = {}]

\* rate_last_command without its clamp
clamp_none(rating) == rating

\* max(1, min(5, rating)) (feedback.py 94)
clamp(rating) ==
    LET m == IF rating < 5 THEN rating ELSE 5 IN IF m > 1 THEN m ELSE 1

RatingInputs    == {-3, 4, 10}
MinRatingInputs == {0, 4}
LimitInputs     == {1, 2}

\* what llm_bridge.embed does for the vector store: a vector, nothing, or an
\* exception (vector_store.py 63-72)
EmbedOutcomes == {"vector", "nothing", "raises"}

NoFb == [op |-> NoValue, query |-> <<>>, rating |-> 0, id |-> 0, min_rating |-> 0,
         limit |-> 0, embed |-> NoValue, path |-> NoValue, returned |-> <<>>]

InitFb ==
    /\ command_history = <<>>
    /\ vector_index = <<>>
    /\ lastFb = NoFb
    /\ fbOps = 0

IdleFb == InitFb

\* FeedbackManager.record_command (feedback.py 69-86); the row gets the next id
\* and the column default rating 0 (feedback.py 45-55). rated is a ghost field:
\* whether rate_last_command ever updated the row.
record_command(q, success, e) ==
    /\ fbOps < MaxFbOps
    /\ fbOps' = fbOps + 1
    /\ LET id == Len(command_history) + 1 IN
       /\ command_history' = Append(command_history,
                                    [id |-> id, query |-> q, rating |-> 0,
                                     success |-> success, rated |-> FALSE])
       /\ vector_index' = IF success /\ e = "vector"
                          THEN Append(vector_index, [id |-> id, query |-> q])
                          ELSE vector_index
       /\ lastFb' = [NoFb EXCEPT !.op = "record_command", !.query = q, !.id = id,
                                 !.embed = IF success THEN e ELSE NoValue]
    /\ FbOnly

\* an UPDATE without its WHERE clause
every_row(rows) == 1..Len(rows)

\* the rows WHERE id = (SELECT MAX(id) FROM command_history) selects
\* (feedback.py 92-93): the row inserted last, none in an empty table
max_id_row(rows) == IF Len(rows) = 0 THEN {} ELSE {Len(rows)}

\* FeedbackManager.rate_last_command (feedback.py 88-99): UPDATE ... SET
\* rating = ? WHERE id = (SELECT MAX(id) ...)
rate_last_command(rating) ==
    /\ fbOps < MaxFbOps
    /\ fbOps' = fbOps + 1
    /\ LET last == Len(command_history) IN
       /\ command_history' =
             [i \in 1..last |->
                 IF i \in max_id_row(command_history)
                 THEN [command_history[i] EXCEPT !.rating = clamp(rating), !.rated = TRUE]
                 ELSE command_history[i]]
       /\ lastFb' = [NoFb EXCEPT !.op = "rate_last_command", !.rating = rating,
                                 !.id = last]
    /\ UNCHANGED vector_index
    /\ FbOnly

\* the dict find_similar builds from a row: query, agent, tool, command, result
\* (feedback.py 136); id is a ghost field telling which row it came from
returned_row(row) == [id |-> row.id, query |-> row.query, hasRating |-> FALSE, rating |-> 0]

\* the metadata record_command gave the vector store (feedback.py 82-84)
returned_metadata(m) == [id |-> m.id, query |-> m.query, hasRating |-> FALSE, rating |-> 0]

\* the rows the SELECT of the fallback matches (feedback.py 128-133)
Selected(q, min_rating) ==
    { i \in 1..Len(command_history) :
        /\ KeywordMatch[<<q, command_history[i].query>>]
        /\ command_history[i].rating >= min_rating
        /\ command_history[i].success }

\* ORDER BY rating DESC LIMIT ?: every order of the selected rows in which the
\* ratings do not increase, cut at limit
OrderedCut(S, limit) ==
    LET n == Cardinality(S)
        m == IF n < limit THEN n ELSE limit
    IN  { SubSeq(f, 1, m) : f \in
            { g \in [1..n -> S] :
                /\ \A i, j \in 1..n : i # j => g[i] # g[j]
                /\ \A i \in 1..(n - 1) :
                      command_history[g[i]].rating >= command_history[g[i + 1]].rating } }

\* the neighbours search_text returns whose score is below 1.0 (feedback.py
\* 107-113): at most k = limit entries of the index, which ones is up to the
\* embedding
Neighbours(limit) ==
    { H \in SUBSET (1..Len(vector_index)) : Cardinality(H) <= limit }

\* the entries of a set of indexes, in index order
RECURSIVE InOrder(_, _)
InOrder(H, n) ==
    IF n = 0 THEN <<>>
    ELSE IF n \in H THEN Append(InOrder(H, n - 1), n) ELSE InOrder(H, n - 1)

\* FeedbackManager.find_similar (feedback.py 101-139). It changes nothing in
\* the store; a call that directly follows another find_similar sees the same
\* table and index and is not taken again.
find_similar(q, min_rating, limit, e) ==
    /\ lastFb.op # "find_similar"
    /\ LET base == [NoFb EXCEPT !.op = "find_similar", !.query = q,
                                !.min_rating = min_rating, !.limit = limit,
                                !.embed = e]
       IN
       \/ /\ e = "raises"      \* caught by the handler at 137-139
          /\ lastFb' = [base EXCEPT !.path = "error"]
       \/ /\ e = "vector"
          /\ \E H \in Neighbours(limit) :
                /\ H # {}
                /\ lastFb' = [base EXCEPT !.path = "vector",
                                 !.returned = [i \in 1..Cardinality(H) |->
                                     returned_metadata(
                                         vector_index[InOrder(H, Len(vector_index))[i]])]]
       \/ /\ e \in {"vector", "nothing"}    \* no neighbour is left: the fallback
          /\ IF NoKeywords[q]
             THEN lastFb' = [base EXCEPT !.path = "keyword"]
             ELSE \E f \in OrderedCut(Selected(q, min_rating), limit) :
                     lastFb' = [base EXCEPT !.path = "keyword",
                                   !.returned = [i \in 1..Len(f) |->
                                                    returned_row(command_history[f[i]])]]
    /\ UNCHANGED <<command_history, vector_index, fbOps>>
    /\ FbOnly

NextFb ==
    \/ \E q \in RecordQueries, success \in BOOLEAN, e \in EmbedOutcomes :
          record_command(q, success, e)
    \/ \E rating \in RatingInputs : rate_last_command(rating)
    \/ \E q \in FindQueries, min_rating \in MinRatingInputs, limit \in LimitInputs,
          e \in EmbedOutcomes : find_similar(q, min_rating, limit, e)

\* ------------------------------------------------ SafetyGuard on its own
\* str.upper() of a text
Upper(c) == IF \E i \in 1..Len(LowerCase) : LowerCase[i] = c
            THEN UpperCase[CHOOSE i \in 1..Len(LowerCase) : LowerCase[i] = c]
            ELSE c
UpperText(text) == [i \in 1..Len(text) |-> Upper(text[i])]

\* the fragments (a word or two) the commands given to SafetyGuard are made of
w_rsync  == <<"r","s","y","n","c">>
w_rsyncx == <<"r","s","y","n","c","x">>
w_dryrun == <<"-","-","d","r","y","-","r","u","n">>
w_git    == <<"g","i","t">>
w_push   == <<"p","u","s","h">>
Fragments == {w_rm, Join(<<w_rm, w_rf>>), Join(<<w_RM, w_RF>>), w_root, w_rsync, w_rsyncx,
              w_dryrun, Join(<<w_git, w_push>>)}

\* the command texts tried: 1..MaxFragments fragments joined by single spaces
SafetyInputs ==
    {Join(fs) : fs \in UNION {[1..n -> Fragments] : n \in 1..MaxFragments}}

NoGuard == [op |-> NoValue, command |-> <<>>, risk_level |-> NoValue, reason |-> NoReason,
            dry_run_command |-> None, dry_run_available |-> FALSE,
            allow_execution |-> FALSE]

\* a command is at hand, no call made yet
InitGuard == \E command \in SafetyInputs : guard = [NoGuard EXCEPT !.command = command]
IdleGuard == guard = NoGuard

\* safety_guard.assess_risk(command)
AssessRisk(command) ==
    /\ guard.op = NoValue /\ guard.command = command
    /\ guard' = [NoGuard EXCEPT !.op = "assess_risk", !.command = command,
                                !.risk_level = assess_risk(command)[1],
                                !.reason = assess_risk(command)[2]]
    /\ GuardOnly

\* safety_guard.get_dry_run_version(command)
GetDryRunVersion(command) ==
    /\ guard.op = NoValue /\ guard.command = command
    /\ guard' = [NoGuard EXCEPT !.op = "get_dry_run_version", !.command = command,
                                !.dry_run_command = get_dry_run_version(command)]
    /\ GuardOnly

\* safety_guard.validate_command(command)
ValidateCommand(command) ==
    /\ guard.op = NoValue /\ guard.command = command
    /\ LET v == validate_command(command) IN
       guard' = [op |-> "validate_command", command |-> v.command,
                 risk_level |-> v.risk_level, reason |-> v.reason,
                 dry_run_command |-> v.dry_run_command,
                 dry_run_available |-> v.dry_run_available,
                 allow_execution |-> v.allow_execution]
    /\ GuardOnly

NextGuard ==
    \/ \E command \in SafetyInputs : AssessRisk(command)
    \/ \E command \in SafetyInputs : GetDryRunVersion(command)
    \/ \E command \in SafetyInputs : ValidateCommand(command)

\* --------------------------------------------------------- specifications
StartOS    == InitOS /\ IdlePerm /\ IdleOrch /\ IdleAgent /\ IdleFb /\ IdleGuard
StartPerm  == IdleOS /\ InitPerm /\ IdleOrch /\ IdleAgent /\ IdleFb /\ IdleGuard
StartOrch  == IdleOS /\ IdlePerm /\ InitOrch /\ IdleAgent /\ IdleFb /\ IdleGuard
StartAgent == IdleOS /\ IdlePerm /\ IdleOrch /\ InitAgent /\ IdleFb /\ IdleGuard
StartFb    == IdleOS /\ IdlePerm /\ IdleOrch /\ IdleAgent /\ InitFb /\ IdleGuard
StartGuard == IdleOS /\ IdlePerm /\ IdleOrch /\ IdleAgent /\ IdleFb /\ InitGuard

SpecOS    == StartOS /\ [][NextOS]_vars
SpecShutdown == StartOS /\ [][NextShutdown]_vars
SpecPerm  == StartPerm /\ [][NextPerm]_vars
SpecOrch  == StartOrch /\ [][NextOrch]_vars
SpecAgent == StartAgent /\ [][NextAgent]_vars
SpecFb    == StartFb /\ [][NextFb]_vars
SpecGuard == StartGuard /\ [][NextGuard]_vars

Init == InitOS /\ InitPerm /\ InitOrch /\ InitAgent /\ InitFb /\ InitGuard
Next == NextOS \/ NextShutdown \/ NextPerm \/ NextOrch \/ NextAgent \/ NextFb \/ NextGuard
Spec == Init /\ [][Next]_vars

\* ----------------------------------------------------------------- claims

\* C1: a command whose joined text is rated BLOCKED never reaches the process
\* spawner: no process exists for it, the call returns from the gate with the
\* processes and the active-process registry as they were, and every process
\* the spawner creates belongs to a call that was classified before, as not
\* BLOCKED.
C1_NoBlockedProcess ==
    /\ \A i \in 1..Len(procs) : Assessments[procs[i].cmd].risk_level # "BLOCKED"
    /\ \A t \in Threads :
          pc[t] \in {"spawn", "register", "communicate"} =>
             /\ assessment[t] = Assessments[cmd_str(call[t].cmd)]
             /\ assessment[t].risk_level # "BLOCKED"
C1_GateStep ==
    \A t \in Threads :
       /\ (pc[t] = "validated" /\ assessment[t].risk_level = "BLOCKED" /\ pc'[t] # pc[t]) =>
             /\ pc'[t] = "returned"
             /\ procs' = procs
             /\ active_processes' = active_processes
       /\ (pc'[t] = "register" /\ pc[t] # "register") =>
             /\ pc[t] = "spawn"
             /\ assessment[t].command = cmd_str(call[t].cmd)
             /\ assessment[t].risk_level \notin {NoValue, "BLOCKED"}
C1_BlockedNeverSpawned == [](C1_NoBlockedProcess) /\ [][C1_GateStep]_vars

\* a BLOCKED token list was refused while the other thread had a process running
C1_Witness ==
    \E t, u \in Threads :
       /\ pc[t] = "returned" /\ result[t].returned
       /\ call[t].cmd.kind = "list"
       /\ assessment[t].risk_level = "BLOCKED"
       /\ pc[u] = "communicate"
       /\ Len(active_processes) = 1

\* C2: the result returned for a BLOCKED command has success = false,
\* timed_out = false and carries the reason of the classifier's assessment.
C2_BlockedResultCarriesReason ==
    \A t \in Threads :
       (pc[t] = "returned" /\ assessment[t].risk_level = "BLOCKED") =>
          /\ result[t].success = FALSE
          /\ result[t].timed_out = FALSE
          /\ result[t].stderr.reason = assessment[t].reason

\* the resolved path is the directory dir or lies below it
UnderDir(abs_path, dir) ==
    \/ abs_path = dir
    \/ dir = <<"/">>
    \/ StartsWith(abs_path, dir \o <<"/">>)

UnderBlacklist(abs_path) ==
    \E i \in 1..Len(blocked_paths) : UnderDir(abs_path, blocked_paths[i])

UnderWhitelist(abs_path) ==
    \E i \in 1..Len(allowed_paths) : UnderDir(abs_path, allowed_paths[i])

\* C3: whatever calls were made before, a call of is_path_allowed for a path
\* that resolves under a blacklisted prefix returns false, for every operation,
\* also when the whitelist covers the path and when a decision for it is
\* cached; and no cached decision for such a path is true.
C3_BlacklistAlwaysDenied ==
    /\ (lastCheck.op = "is_path_allowed" /\ UnderBlacklist(lastCheck.abs_path)) =>
          lastCheck.returned = FALSE
    /\ \A k \in DOMAIN cache : UnderBlacklist(k[1]) => cache[k] = FALSE

\* /etc itself is whitelisted, the decision for /etc/p is cached, and the path
\* that reaches it through the symbolic link has just been denied
C3_Witness ==
    /\ lastCheck.op = "is_path_allowed"
    /\ lastCheck.path = p_via_link
    /\ lastCheck.abs_path = p_etc_passwd
    /\ lastCheck.returned = FALSE
    /\ \E i \in 1..Len(allowed_paths) : allowed_paths[i] = <<"/","e","t","c">>
    /\ cache_key(p_etc_passwd, lastCheck.operation) \in DOMAIN cache
    /\ lastCheck.wasDenied

\* the text of the path, as given, begins with a whitelist entry
TextBeginsWhitelisted(path) ==
    \E i \in 1..Len(allowed_paths) : StartsWith(path, allowed_paths[i])

\* C4: a path whose text begins with a whitelisted prefix but which resolves
\* outside every whitelist entry, or under the blacklist, is denied.
C4_ResolvedPathDecides ==
    (/\ lastCheck.op = "is_path_allowed"
     /\ lastCheck.abs_path # Invalid
     /\ TextBeginsWhitelisted(lastCheck.path)
     /\ (~UnderWhitelist(lastCheck.abs_path) \/ UnderBlacklist(lastCheck.abs_path)))
    => lastCheck.returned = FALSE

\* the previous call added a whitelist entry that covers the path of this call
CoveredByLastAdd ==
    /\ lastCheck.op = "is_path_allowed"
    /\ lastCheck.prevAdded # <<>>
    /\ UnderDir(lastCheck.abs_path, lastCheck.prevAdded)

\* every call of is_path_allowed returns what the uncached evaluation against
\* the current whitelist and blacklist returns, and the cache holds nothing else
CacheCoherent ==
    /\ (lastCheck.op = "is_path_allowed" /\ lastCheck.abs_path # Invalid) =>
          lastCheck.returned = decide(lastCheck.abs_path, allowed_paths)
    /\ \A k \in DOMAIN cache : cache[k] = decide(k[1], allowed_paths)

\* two consecutive calls for the same path return the same
SameTwice ==
    (/\ lastCheck.op = "is_path_allowed"
     /\ lastCheck.prevOp = "is_path_allowed"
     /\ lastCheck.prevPath = lastCheck.path)
    => lastCheck.returned = lastCheck.prevReturned

\* C5 as stated: coherent cache, same answer twice, and every path that was
\* denied is allowed on the first call after add_allowed_path added a prefix
\* that covers it.
C5_Original ==
    /\ CacheCoherent
    /\ SameTwice
    /\ (CoveredByLastAdd /\ lastCheck.wasDenied) => lastCheck.returned = TRUE

\* C5 amended: coherent cache, same answer twice, and every path that was denied
\* and whose resolved text begins with no blacklisted prefix is allowed on the
\* first call after add_allowed_path added a prefix that covers it.
C5_CacheCoherentAmended ==
    /\ CacheCoherent
    /\ SameTwice
    /\ (CoveredByLastAdd /\ lastCheck.wasDenied /\ ~is_blocked(lastCheck.abs_path))
          => lastCheck.returned = TRUE

\* /tmp/f was denied, /tmp was added, and the next call allowed /tmp/f
C5_Witness ==
    /\ CoveredByLastAdd
    /\ lastCheck.wasDenied
    /\ lastCheck.path = p_tmp
    /\ lastCheck.returned = TRUE
    /\ Len(allowed_paths) >= 2

\* every step of the plan is a record with an id, a task and a registered capability
NamesRegistered ==
    /\ ~plan.error
    /\ plan.shape = "list"
    /\ \A i \in 1..Len(plan.steps) :
          /\ plan.steps[i].rec
          /\ plan.steps[i].hasId
          /\ plan.steps[i].task # NoValue
          /\ plan.steps[i].agent \in Agents

\* C6: for a plan of n steps that names registered capabilities, whichever steps
\* raise, the steps are dispatched once each in plan order, and when the stream
\* has ended all n were dispatched and the result list has n entries in step
\* order, of which exactly the raising steps carry the crash text; run returns
\* that list.
C6_PlanIsolation ==
    (opc # "idle" /\ opc # "planning" /\ NamesRegistered) =>
        /\ dispatched = [i \in 1..Len(dispatched) |-> i]
        /\ raised \subseteq 1..Len(dispatched)
        /\ opc = "ended" =>
              /\ Len(dispatched) = Len(plan.steps)
              /\ Len(results) = Len(plan.steps)
              /\ \A i \in 1..Len(results) :
                    /\ results[i].step = plan.steps[i].id
                    /\ (results[i].text = "Error: crashed") <=> (i \in raised)
                    /\ (results[i].text = "ok") <=> (i \notin raised \cup returnedFail)
              /\ mode = "run" => runResult = [returned |-> TRUE, value |-> results]

\* run returned three results of which only the second step's capability raised
C6_Witness ==
    /\ opc = "ended"
    /\ mode = "run"
    /\ NamesRegistered
    /\ Len(plan.steps) = 3
    /\ raised = {2}
    /\ returnedFail = {}
    /\ runResult.returned
    /\ Len(runResult.value) = 3

Closing(ev) == ev.status \in {"completed", "error"} /\ ev.hasStep

\* C7: planning is the first event and occurs once; planned occurs at most once,
\* as the second event, before every executing; each executing(i) is directly
\* followed by one completed(i) or error(i), and a capability call is in flight
\* exactly while executing is the last event; each step is executed at most
\* once; finished is the last event.
C7_EventOrder ==
    /\ events # <<>> => events[1].status = "planning"
    /\ \A i \in 1..Len(events) :
          LET ev == events[i] IN
          /\ ev.status = "planning" => i = 1
          /\ ev.status = "planned" => i = 2
          /\ ev.status = "executing" =>
                /\ i > 2
                /\ events[2].status = "planned"
                /\ ev.hasStep
                /\ i < Len(events) =>
                      /\ Closing(events[i + 1])
                      /\ events[i + 1].step = ev.step
                /\ \A j \in 1..Len(events) :
                      (events[j].status = "executing" /\ events[j].step = ev.step) => j = i
          /\ ev.status = "completed" =>
                /\ ev.hasStep
                /\ i > 1
                /\ events[i - 1].status = "executing"
                /\ events[i - 1].step = ev.step
          /\ ev.status = "finished" => i = Len(events)
    /\ (opc = "executing") <=>
          (events # <<>> /\ events[Len(events)].status = "executing")
    /\ (events # <<>> /\ events[Len(events)].status = "finished") => opc = "ended"

\* planning, planned, executing(1), completed(1), executing(2), error(2), finished
C7_Witness ==
    /\ Len(events) = 7
    /\ events[3].status = "executing" /\ events[3].step = 1
    /\ events[4].status = "completed" /\ events[4].step = 1
    /\ events[5].status = "executing" /\ events[5].step = 2
    /\ events[6].status = "error" /\ events[6].step = 2
    /\ events[7].status = "finished"

\* the Oracle's answer cannot be parsed, or what was parsed is not a plan: no
\* record, no "steps", "steps" no list, or an element of "steps" that is not a
\* record with an id
ParseOrShapeFailure(o) ==
    \/ o.response # "json"
    \/ ~o.isDict
    \/ ~o.hasSteps
    \/ o.shape # "list"
    \/ \E i \in 1..Len(o.kinds) : o.kinds[i] \in {"not-a-record", "no-id", "no-id-unknown"}

PlanReturned == opc \notin {"idle", "planning"}

\* C8: plan returns a value for every query and Oracle behaviour, and whenever
\* the Oracle's answer fails to parse or has the wrong shape that value is a
\* PlanningError with an empty step list.
C8_ShapeFailureIsPlanningError ==
    (PlanReturned /\ ParseOrShapeFailure(oracle)) =>
        (plan.error /\ plan.steps = <<>>)

\* C9: when planning failed the stream is over after planning and one error
\* event without a step; no capability was dispatched, no step outcome, feedback,
\* audit or history entry was written, and run returns exactly one synthetic
\* failed step 0 carrying the planning error.
C9_PlanningFailure ==
    (PlanReturned /\ plan.error) =>
        /\ opc = "ended"
        /\ dispatched = <<>>
        /\ raised = {} /\ returnedFail = {}
        /\ results = <<>>
        /\ feedbackLog = <<>> /\ auditLog = <<>> /\ history = <<>>
        /\ events = << EventNoStep("planning", ""),
                       EventNoStep("error", "Planning Error: " \o plan.msg) >>
        /\ mode = "run" =>
              runResult = [returned |-> TRUE,
                           value |-> << [step |-> 0,
                                         text |-> "Error: Planning Error: " \o plan.msg] >>]
        /\ mode = "stream" => runResult = NotReturned

\* run returned the synthetic step after the Oracle answered with text that is no JSON
C9_Witness ==
    /\ opc = "ended"
    /\ mode = "run"
    /\ plan.error
    /\ plan.msg = "Invalid JSON from LLM"
    /\ runResult.returned
    /\ Len(runResult.value) = 1
    /\ runResult.value[1].step = 0

\* C10: within one smart_execute at most one correction request goes to the
\* Oracle; it goes only after the first attempt failed or raised; the
\* correction's own outcome, failed or raised, is never followed by another
\* request; a first attempt that did not fail sends none.
C10_CorrectionBounded ==
    /\ corrRequests = Len(corrAfter)
    /\ corrRequests <= 1
    /\ corrRequests = 1 =>
          /\ firstAttempt.outcome \in {"failed", "raised"}
          /\ corrAfter[1] = (IF firstAttempt.outcome = "raised" THEN "first-raised"
                             ELSE "first-failed")
    /\ \A i \in 1..Len(corrAfter) : corrAfter[i] # "correction-raised"
    /\ (apc = "returned" /\ firstAttempt.outcome \in {"ok", "empty"}) =>
          (corrRequests = 0 /\ agentResult.correction = NoValue)
    /\ (apc = "returned" /\ firstAttempt.outcome \in {"failed", "raised"}) =>
          (corrRequests = 1 /\ agentResult.correction = corrOutcome)
    /\ apc = "correcting" => corrRequests = 1

\* the first attempt raised, the corrected tool call raised too, and
\* smart_execute returned after its single request
C10_Witness ==
    /\ apc = "returned"
    /\ firstAttempt.outcome = "raised"
    /\ corrOutcome = "tool-raised"
    /\ corrRequests = 1
    /\ agentResult.returned

\* C11: whenever a correction was attempted, the text smart_execute returns
\* holds the original failure and the correction's result, on the path of a
\* failure-marked result and on the path of a raised exception alike.
C11_OriginalKeptWithCorrection ==
    (apc = "returned" /\ corrRequests >= 1) =>
        /\ agentResult.returned
        /\ agentResult.original = firstAttempt.outcome
        /\ agentResult.correction = corrOutcome
        /\ agentResult.correction # NoValue

AuditRowsOf(step)    == { j \in 1..Len(auditLog) : auditLog[j].step = step }
FeedbackRowsOf(step) == { j \in 1..Len(feedbackLog) : feedbackLog[j].step = step }

\* C12: for every entry of run_stream's result list (completed step, crashed
\* capability, unknown capability) exactly one audit row and exactly one
\* feedback record were written for that step, their status and success saying
\* whether the result text holds no failure marker.
C12_EveryOutcomePersisted ==
    \A i \in 1..Len(results) :
        /\ Cardinality(AuditRowsOf(results[i].step)) = 1
        /\ Cardinality(FeedbackRowsOf(results[i].step)) = 1
        /\ \A j \in AuditRowsOf(results[i].step) :
              auditLog[j].status =
                  (IF HasMarker(results[i].text) THEN "error" ELSE "success")
        /\ \A j \in FeedbackRowsOf(results[i].step) :
              feedbackLog[j].success = ~HasMarker(results[i].text)

\* C13: rate_last_command(r) stores 1 for r below 1, 5 for r above 5 and r
\* otherwise, in the row with the highest id; after any sequence of
\* record_command and rate_last_command calls every stored rating is in 0..5
\* and is 0 exactly for the rows that were never rated.
C13_RatingClamped ==
    /\ \A i \in 1..Len(command_history) :
          /\ command_history[i].rating \in 0..5
          /\ (command_history[i].rating = 0) <=> ~command_history[i].rated
    /\ (lastFb.op = "rate_last_command" /\ lastFb.id > 0) =>
          /\ lastFb.id = Len(command_history)
          /\ command_history[lastFb.id].rating =
                (IF lastFb.rating < 1 THEN 1
                 ELSE IF lastFb.rating > 5 THEN 5 ELSE lastFb.rating)

\* rate_last_command(10) has stored 5 in the second row; the first row was never
\* rated and holds 0
C13_Witness ==
    /\ lastFb.op = "rate_last_command"
    /\ lastFb.rating = 10
    /\ Len(command_history) = 2
    /\ command_history[2].rating = 5
    /\ command_history[1].rating = 0
    /\ ~command_history[1].rated

\* the searched and the recorded query share a word that is no stop word
SharesToken == [x \in FindQueries \X RecordQueries |->
                   NonStopTokens(x[1]) \cap NonStopTokens(x[2]) # {}]

\* the rows the fallback is said to return: a shared non-stop-word token, the
\* rating floor, success
Expected(q, min_rating) ==
    { i \in 1..Len(command_history) :
        /\ SharesToken[<<q, command_history[i].query>>]
        /\ command_history[i].rating >= min_rating
        /\ command_history[i].success }

\* C14: when the embedding is unavailable or returns nothing, find_similar
\* returns exactly the rows that share a non-stop-word token with the query,
\* have rating >= min_rating and success, by rating descending, cut at limit
\* (the empty list when the query has no such token).
C14_KeywordFallback ==
    (lastFb.op = "find_similar" /\ lastFb.embed \in {"nothing", "raises"}) =>
        LET E   == Expected(lastFb.query, lastFb.min_rating)
            ret == lastFb.returned
        IN  /\ Len(ret) = (IF Cardinality(E) < lastFb.limit THEN Cardinality(E)
                           ELSE lastFb.limit)
            /\ \A i \in 1..Len(ret) : ret[i].id \in E
            /\ \A i, j \in 1..Len(ret) : i # j => ret[i].id # ret[j].id
            /\ \A i \in 1..(Len(ret) - 1) :
                  command_history[ret[i].id].rating >= command_history[ret[i + 1].id].rating

\* C15: after record_command(q, success) and rate_last_command(r), a
\* find_similar whose query shares a keyword with q and whose min_rating is at
\* most the stored rating returns a non-empty list whose first entry is that
\* record, with its query and its stored rating.
C15_RecordRateRetrieve ==
    (/\ lastFb.op = "find_similar"
     /\ Len(command_history) > 0
     /\ LET row == command_history[Len(command_history)] IN
           /\ row.success
           /\ row.rated
           /\ lastFb.min_rating <= row.rating
           /\ SharesToken[<<lastFb.query, row.query>>]
           /\ KeywordMatch[<<lastFb.query, row.query>>])
    => LET row == command_history[Len(command_history)]
           ret == lastFb.returned
       IN  /\ Len(ret) > 0
           /\ ret[1].id = row.id
           /\ ret[1].query = row.query
           /\ ret[1].hasRating
           /\ ret[1].rating = row.rating

InRegistry(p) == \E i \in 1..Len(active_processes) : active_processes[i] = p

ExitStep ==
    (hpc # "exited" /\ hpc' = "exited") =>
        \A i \in 1..Len(procs') : procs'[i].state # "running"

\* C17: when the shutdown handler has walked the registry and goes on to exit,
\* every process run_command has spawned has ended or was terminated, whatever
\* the worker threads appended to or removed from the registry meanwhile.
C17_ShutdownTerminatesAll == [][ExitStep]_vars

Matching(patterns, command) ==
    {i \in 1..Len(patterns) : Search(patterns[i], command)}
Least(S) == CHOOSE x \in S : \A y \in S : x <= y

\* C19: assess_risk gives BLOCKED to every command matching a BLOCKED pattern
\* (whatever HIGH_RISK patterns it matches too), HIGH_RISK to every command
\* matching no BLOCKED pattern but a HIGH_RISK one, SAFE exactly to commands
\* matching no pattern; the reason names the first matching pattern of the
\* list, and the upper-cased and lower-cased command get the same result.
C19_ClassificationPrecedence ==
    guard.op \in {"assess_risk", "validate_command"} =>
        LET B == Matching(BLOCKED_COMMANDS, guard.command)
            H == Matching(HIGH_RISK_COMMANDS, guard.command)
        IN  /\ B # {} =>
                 /\ guard.risk_level = "BLOCKED"
                 /\ guard.reason.list = "BLOCKED"
                 /\ guard.reason.pattern = Least(B)
            /\ (B = {} /\ H # {}) =>
                 /\ guard.risk_level = "HIGH_RISK"
                 /\ guard.reason.list = "HIGH_RISK"
                 /\ guard.reason.pattern = Least(H)
            /\ (B = {} /\ H = {}) <=> (guard.risk_level = "SAFE")
            /\ guard.risk_level \in {"BLOCKED", "HIGH_RISK", "SAFE"}
            /\ assess_risk(UpperText(guard.command)) = <<guard.risk_level, guard.reason>>
            /\ assess_risk(LowerText(guard.command)) = <<guard.risk_level, guard.reason>>

\* assess_risk has classified as BLOCKED a command with upper-case letters that
\* matches a BLOCKED pattern and several HIGH_RISK patterns
C19_Witness ==
    /\ guard.op = "assess_risk"
    /\ guard.command # LowerText(guard.command)
    /\ Matching(BLOCKED_COMMANDS, guard.command) # {}
    /\ Cardinality(Matching(HIGH_RISK_COMMANDS, guard.command)) > 1
    /\ guard.risk_level = "BLOCKED"

\* tokens lead the token list parts
LeadingTokens(tokens, parts) ==
    /\ Len(tokens) <= Len(parts)
    /\ \A i \in 1..Len(tokens) : parts[i] = tokens[i]

\* the entries of DRY_RUN_MAP that have a flag, whose prefix is the leading
\* token(s) of the command, and whose flag the command does not contain
Applicable(command) ==
    {k \in 1..Len(DRY_RUN_MAP) :
        /\ DRY_RUN_MAP[k].flag # <<>>
        /\ LeadingTokens(Split(DRY_RUN_MAP[k].prefix), Split(command))
        /\ IndexOf(Split(command), DRY_RUN_MAP[k].flag) = 0}

\* C20: get_dry_run_version returns a command containing the table's flag when
\* the leading token(s) of the command are a prefix of DRY_RUN_MAP that has a
\* flag and the command does not contain that flag yet, and None otherwise
\* (flag already present, prefix without flag, leading token only starting with
\* a prefix); dry_run_available is true exactly when a command is returned.
C20_DryRunVersion ==
    guard.op \in {"get_dry_run_version", "validate_command"} =>
        /\ guard.dry_run_command.none <=> (Applicable(guard.command) = {})
        /\ ~guard.dry_run_command.none =>
              \E k \in Applicable(guard.command) :
                 IndexOf(Split(guard.dry_run_command.command), DRY_RUN_MAP[k].flag) > 0
        /\ guard.op = "validate_command" =>
              (guard.dry_run_available <=> ~guard.dry_run_command.none)

\* C21: a capability with a scoped_path runs its task inside the temporary
\* scope, and when execute has returned or raised the whitelist of the
\* PermissionManager is the one that was active before entry.
C21_TemporaryScopeReleased ==
    (execCall.scoped_path /\ apc \in {"returned", "raised"}) =>
        /\ execCall.task_ran
        /\ execCall.error # "AttributeError"
        /\ allowed_paths = execCall.scope_before

\* C22: every value plan returns without an error has the required shape: its
\* "steps" is a list and every element of it is a record with an id, a
\* capability name and a task; an answer of the Oracle without that shape is
\* returned as a planning error and no step of it reaches the loop.
C22_PlanShapeValidated ==
    (PlanReturned /\ ~plan.error) =>
        /\ plan.shape = "list"
        /\ \A i \in 1..Len(plan.steps) :
              /\ plan.steps[i].rec
              /\ plan.steps[i].hasId
              /\ plan.steps[i].agent # NoValue
              /\ plan.steps[i].task # NoValue

Finished(ev) == ev.status = "finished"

\* C23: a run_stream call that was handed a plan and is consumed to its end has
\* emitted finished exactly once, as its last event, with the accumulated
\* results (the list it stored in the history), whatever steps the plan holds.
C23_StreamFinishes ==
    (mode = "stream" /\ opc = "ended" /\ ~plan.error) =>
        /\ Finished(events[Len(events)])
        /\ Cardinality({i \in 1..Len(events) : Finished(events[i])}) = 1
        /\ history = << [query |-> query, results |-> results] >>

\* every step of the plan is a record with an id
StepsAreRecords ==
    \A i \in 1..Len(plan.steps) : plan.steps[i].rec /\ plan.steps[i].hasId

\* C28: when plan produced a plan, run consumes the stream to finished and
\* returns its result list; a step without capability or task, or any other
\* error event that is no planning error, does not make run return the
\* synthetic step 0 nor keep the remaining steps from being executed.
C28_SyntheticOnlyOnPlanningFailure ==
    (mode = "run" /\ opc = "ended" /\ ~plan.error /\ StepsAreRecords) =>
        /\ runResult = [returned |-> TRUE, value |-> results]
        /\ Finished(events[Len(events)])
        /\ stepIdx = Len(plan.steps) + 1

\* the hooks invoked and the processes terminated so far
HooksInvoked    == [i \in 1..Len(hookCalls) |-> hookCalls[i].hook]
ProcsTerminated == [i \in 1..Len(termCalls) |-> termCalls[i].proc]

\* C24: on the shutdown signal the registered hooks are invoked once each, in
\* registration order, after the walk over the tracked processes and before the
\* exit, also when a hook or a termination raised; a further signal that arrives
\* meanwhile invokes no hook and terminates no process a second time.
C24_HooksRunOnce ==
    /\ HooksInvoked = [i \in 1..Len(hookCalls) |-> i]
    /\ Len(hookCalls) <= Len(shutdown_hooks)
    /\ hookCalls # <<>> => hpc \in {"hooks", "exited"}
    /\ hpc \in {"idle", "walk"} => hookCalls = <<>>
    /\ hpc = "idle" => termCalls = <<>>
    /\ hpc = "exited" => Len(hookCalls) = Len(shutdown_hooks)
    /\ \A i, j \in 1..Len(termCalls) : ProcsTerminated[i] = ProcsTerminated[j] => i = j
    /\ signals >= 1 <=> is_shutting_down

\* the handler has exited after two signals: a termination raised, the first
\* hook raised, and all three hooks were invoked
C24_Witness ==
    /\ hpc = "exited"
    /\ signals = 2
    /\ \E i \in 1..Len(termCalls) : termCalls[i].outcome = "raises"
    /\ Len(hookCalls) = Len(shutdown_hooks)
    /\ hookCalls[1].raised

\* a step that is a rate_last_command call
RateStep == lastFb'.op = "rate_last_command" /\ fbOps' = fbOps + 1

\* C25: rate_last_command changes the rating of the record inserted last and
\* nothing else: the table keeps its records, every other record keeps all its
\* fields, the last one its id, query and success, the vector index is as it
\* was, and an empty table stays empty.
C25_RateChangesOnlyLastRating ==
    [][RateStep =>
         /\ Len(command_history') = Len(command_history)
         /\ \A i \in 1..(Len(command_history) - 1) :
               command_history'[i] = command_history[i]
         /\ \A i \in 1..Len(command_history) :
               /\ command_history'[i].id = command_history[i].id
               /\ command_history'[i].query = command_history[i].query
               /\ command_history'[i].success = command_history[i].success
         /\ vector_index' = vector_index]_vars

\* rate_last_command(4) was called on a table of two records with different
\* queries: the second holds 4, the first is as it was inserted
C25_Witness ==
    /\ lastFb.op = "rate_last_command"
    /\ lastFb.rating = 4
    /\ Len(command_history) = 2
    /\ command_history[1].query # command_history[2].query
    /\ command_history[2].rating = 4
    /\ command_history[1].rating = 0
    /\ ~command_history[1].rated

C27_ComponentBoundaries ==
    (lastCheck.op = "is_path_allowed" /\ lastCheck.abs_path # Invalid) =>
        /\ lastCheck.returned => UnderWhitelist(lastCheck.abs_path)
        /\ (UnderWhitelist(lastCheck.abs_path) /\ ~UnderBlacklist(lastCheck.abs_path))
              => lastCheck.returned

FeedbackOf(i) == { j \in 1..Len(feedbackLog) : feedbackLog[j].step = results[i].step }
AuditOf(i)    == { j \in 1..Len(auditLog) : auditLog[j].step = results[i].step }

\* C30: every step whose capability returned a text that reports a failure (a
\* structured LIAResult.fail text, the combined text after self-correction) is
\* recorded with success false and audit status error, and every step recorded
\* with success true is one whose capability reported no failure.
C30_FailureMarkerConsistency ==
    (PlanReturned /\ NamesRegistered) =>
      \A i \in 1..Len(results) :
        i \notin raised =>
            /\ FeedbackOf(i) # {}
            /\ AuditOf(i) # {}
            /\ \A j \in FeedbackOf(i) :
                  feedbackLog[j].success = ~ReportsFailure(results[i].text)
            /\ \A j \in AuditOf(i) :
                  (auditLog[j].status = "success") = ~ReportsFailure(results[i].text)

====
